---- MODULE Spec2Model ----
(***************************************************************************)
(* Dynamic 2-hour lab panels (eICU, MIMIC-III, MIMIC-IV): the cohort       *)
(* skeleton, the relative-time resolver, the positive-time binner, the     *)
(* last-within-bin selection and the left-join panel assembly.             *)
(*                                                                         *)
(* Numbers are exact rationals [n, d] with d > 0; d = 0 is NaN / NaT.      *)
(* A CSV cell is [k, n, d]: k = "num" parses with pd.to_numeric, k = "ts"  *)
(* parses with pd.to_datetime (n = minutes since an epoch), k = "bad"      *)
(* parses with neither.                                                    *)
(***************************************************************************)
EXTENDS Integers, Sequences, FiniteSets, TLC

VARIABLES
  script,   \* which of the three panel scripts runs
  pc,       \* the position in main (or in the function under study)
  base,     \* BASE_IDS_CSV, as read
  ids,      \* the cohort: the distinct valid ids, in row order
  t0_map,   \* <<id, t0>> of every valid base row (MIMIC scripts)
  files,    \* the analyte files read so far, in the order of VAR_FILES
  kvar,     \* the index in VAR_FILES of the next analyte
  panel,    \* the panel frame
  failed,   \* the analytes whose extraction raised ([WARN] lines)
  out,      \* OUT_CSV
  hin, hout,        \* an input and the output of _assign_bin_end_hours_abs
  sin, tname, sout, \* a time column, its name, the result of _ensure_hours_series
  feed,     \* the analyte files the run meets: "hours", "stamps" or "values"
  run,      \* 1 in the first run of main, 2 in a run repeated on the same files
  prev,     \* OUT_CSV as the previous run left it
  analyte,  \* the analyte a lab extractor works on
  lab,      \* the rows of the lab table handed to a lab extractor
  series,   \* the long series the lab extractor writes
  agg,      \* the result of _bin_one_variable on that series
  resolver, \* the column resolver called
  header,   \* the header it searches
  picked,   \* its outcome: a column, or the exception raised
  tool,     \* the chunked filter script that runs
  src,      \* its input file
  dst,      \* its output file
  chunks,   \* the chunks of src not yet read
  flag,     \* header_written / first_write
  total,    \* total_rows
  chunksize, \* rows per chunk
  once,     \* dst as the first run left it
  icu,      \* the ICU stays table
  first_icu, \* the first stay per subject
  sources,  \* the other source tables, in merge order
  deduped,  \* the sources loaded so far, one row per subject
  merged    \* the frames reduced so far and the merged rows

mainVars == <<script, pc, base, ids, t0_map, files, kvar, panel, failed, out>>
stepVars == <<hin, hout, sin, tname, sout>>
runVars  == <<feed, run, prev>>
labVars  == <<analyte, lab, series, agg>>
pickVars == <<resolver, header, picked>>
fsVars   == <<tool, src, dst, chunks, flag, total, chunksize, once>>
statVars == <<icu, first_icu, sources, deduped, merged>>

vars == <<mainVars, stepVars, runVars, labVars, pickVars, fsVars, statVars>>

\* ------------------------------------------------------------- bounds
MaxId   == 2     \* entity ids are 1..MaxId
MaxBase == 2     \* rows of the base identifier file
MaxRecs == 2     \* records over all analyte files of one run
MaxFiles == 1    \* analyte files of one run that exist
MaxHour == 722   \* |h| of the binner's inputs, in hours
MaxSer  == 3     \* length of a time column handed to the resolver
MaxLab  == 2     \* rows of a lab table that name the analyte
MaxHdr  == 2     \* columns of a header handed to a column resolver
MaxRows == 3     \* data rows of a table read in chunks
ChunkSize == 2   \* rows of one chunk (chunksize)
OTHER_ITEM == 220045  \* an ITEMID of the input that is not ITEM_ID
MaxIcu  == 3     \* rows of the ICU stays table
MaxSrcRows == 3  \* rows of a source merged onto the cohort

\* ---------------------------------------------------- program constants
ABS_START_H == 8
ITEM_ID == 226512
ABS_END_H   == 30 * 24
BIN_H       == 2
MED_MINUTES == 500
MIN_PER_H   == 60

Scripts == {"eICU", "mimic_III", "mimic_IV"}

VARS == <<"Albumin", "Creatinine", "Hemoglobin", "Potassium", "Sodium">>

\* np.arange(start, stop, step)
arange(start, stop, step) ==
  [i \in 1..((stop - start + step - 1) \div step) |-> start + (i - 1) * step]

GRID_ENDS == arange(ABS_START_H + BIN_H, ABS_END_H + 1, BIN_H)
N_BINS    == Len(GRID_ENDS)

\* ------------------------------------------------------------ rationals
NaN      == [n |-> 0, d |-> 0]
Num(i)   == [n |-> i, d |-> 1]
Rat(i,j) == [n |-> i, d |-> j]
IsNaN(a) == a.d = 0
Abs(i)   == IF i < 0 THEN -i ELSE i
RAbs(a)  == [n |-> Abs(a.n), d |-> a.d]
RLt(a,b) == a.n * b.d < b.n * a.d
RLe(a,b) == a.n * b.d <= b.n * a.d
REq(a,b) == a.n * b.d = b.n * a.d
RSub(a,b) == [n |-> a.n * b.d - b.n * a.d, d |-> a.d * b.d]
RDivInt(a,k) == IF IsNaN(a) THEN NaN ELSE [n |-> a.n, d |-> a.d * k]
RMul(a,b) == IF IsNaN(a) THEN NaN ELSE [n |-> a.n * b.n, d |-> a.d * b.d]
RDiv(a,b) == IF IsNaN(a) THEN NaN ELSE [n |-> a.n * b.d, d |-> a.d * b.n]
\* np.ceil of a rational
Ceil(a)  == -((-a.n) \div a.d)
clip(i, lo, hi) == IF i < lo THEN lo ELSE IF i > hi THEN hi ELSE i

\* ---------------------------------------------------------------- cells
NumCell(i,j) == [k |-> "num", n |-> i, d |-> j]
TsCell(m)    == [k |-> "ts",  n |-> m, d |-> 1]
BadCell      == [k |-> "bad", n |-> 0, d |-> 0]

\* pd.to_numeric(., errors="coerce")
to_numeric(c) == IF c.k = "num" THEN Rat(c.n, c.d) ELSE NaN
\* pd.to_datetime(., errors="coerce"): minutes since the epoch, or NaT
to_datetime(c) == IF c.k = "ts" THEN Num(c.n) ELSE NaN

\* ------------------------------------------------------- column guessing
\* str.lower() over the header names the model uses
lower(c) ==
  CASE c = "SUBJECT_ID"       -> "subject_id"
    [] c = "CHARTTIME"        -> "charttime"
    [] c = "VALUENUM"         -> "valuenum"
    [] c = "FIRST_ICU_INTIME" -> "first_icu_intime"
    [] c = "PATIENTUNITSTAYID"    -> "patientunitstayid"
    [] c = "LabName"              -> "labname"
    [] c = "VALUEUOM"             -> "valueuom"
    [] c = "Albumin"              -> "albumin"
    [] c = "Creatinine"           -> "creatinine"
    [] c = "Hemoglobin"           -> "hemoglobin"
    [] c = "Potassium"            -> "potassium"
    [] c = "Sodium"               -> "sodium"
    [] c = "Albumin_charttime"    -> "albumin_charttime"
    [] c = "Creatinine_charttime" -> "creatinine_charttime"
    [] c = "Hemoglobin_charttime" -> "hemoglobin_charttime"
    [] c = "Potassium_charttime"  -> "potassium_charttime"
    [] c = "Sodium_charttime"     -> "sodium_charttime"
    [] c = "Creatinine_valueuom"  -> "creatinine_valueuom"
    [] c = "Hemoglobin_valueuom"  -> "hemoglobin_valueuom"
    [] c = "Potassium_valueuom"   -> "potassium_valueuom"
    [] c = "Sodium_valueuom"      -> "sodium_valueuom"
    [] c = "ICD_CODE"             -> "icd_code"
    [] c = "ICD9_CODE"            -> "icd9_code"
    [] c = "Unit"                 -> "unit"
    [] OTHER                  -> c

\* "offset" in name
HasOffset(name) == name \in {"labresultoffset", "offset", "timeoffset"}
\* "charttime" in name
HasCharttime(name) ==
  name \in {"charttime", "albumin_charttime", "creatinine_charttime",
            "hemoglobin_charttime", "potassium_charttime", "sodium_charttime"}
\* name.endswith("_charttime")
EndsCharttime(name) == HasCharttime(name) /\ name # "charttime"
\* f"{var_name.lower()}_charttime"
VarCharttime(var) ==
  CASE var = "Albumin"    -> "albumin_charttime"
    [] var = "Creatinine" -> "creatinine_charttime"
    [] var = "Hemoglobin" -> "hemoglobin_charttime"
    [] var = "Potassium"  -> "potassium_charttime"
    [] var = "Sodium"     -> "sodium_charttime"
\* var_name.lower()
VarLower(var) ==
  CASE var = "Albumin"    -> "albumin"
    [] var = "Creatinine" -> "creatinine"
    [] var = "Hemoglobin" -> "hemoglobin"
    [] var = "Potassium"  -> "potassium"
    [] var = "Sodium"     -> "sodium"

NoCol == "<none>"

Range(s) == {s[i] : i \in 1..Len(s)}

\* the header of cols whose lowercased form is key ({c.lower(): c}: the last wins)
ByLower(cols, key) ==
  LET hits == {i \in 1..Len(cols) : lower(cols[i]) = key}
  IN  IF hits = {} THEN NoCol
      ELSE cols[CHOOSE i \in hits : \A j \in hits : j <= i]

\* the first key of keys that some header matches, else NoCol
RECURSIVE FirstKey(_, _, _)
FirstKey(cols, keys, i) ==
  IF i > Len(keys) THEN NoCol
  ELSE IF ByLower(cols, keys[i]) # NoCol THEN ByLower(cols, keys[i])
  ELSE FirstKey(cols, keys, i + 1)

\* the first header satisfying P, else NoCol
FirstCol(cols, P(_)) ==
  LET hits == {i \in 1..Len(cols) : P(cols[i])}
  IN  IF hits = {} THEN NoCol
      ELSE cols[CHOOSE i \in hits : \A j \in hits : i <= j]

PatientKeys(sc) ==
  CASE sc = "eICU"      -> <<"patientunitstayid", "patient_id", "subject_id", "pid", "patient">>
    [] sc = "mimic_III" -> <<"subject_id", "patientunitstayid", "patient_id", "pid", "patient">>
    [] sc = "mimic_IV"  -> <<"subject_id", "subjectid", "patientunitstayid", "patient_id", "pid", "patient">>

\* NoCol stands for the ValueError
_guess_patient_col(sc, cols) == FirstKey(cols, PatientKeys(sc), 1)

TimeKeys == <<"labresultoffset", "offset", "timeoffset", "hours", "hour",
              "charttime", "time", "timestamp">>

TimeFallback(sc, c) ==
  \/ HasCharttime(lower(c))
  \/ HasOffset(lower(c))
  \/ lower(c) = "time"
  \/ (sc # "eICU" /\ lower(c) = "timestamp")

_guess_time_col(sc, cols, var) ==
  IF ByLower(cols, VarCharttime(var)) # NoCol THEN ByLower(cols, VarCharttime(var))
  ELSE IF FirstKey(cols, TimeKeys, 1) # NoCol THEN FirstKey(cols, TimeKeys, 1)
  ELSE LET P(c) == TimeFallback(sc, c) IN FirstCol(cols, P)

ValueKeys == <<"valuenum", "value", "labresult", "resultvalue", "measurevalue">>

\* lc contains one of the words the fallback skips
HasUnitFlag(lc) ==
  lc \in {"unit", "uom", "flag", "valueuom", "creatinine_valueuom", "hemoglobin_valueuom",
          "potassium_valueuom", "sodium_valueuom"}
HasTimeWord(lc) ==
  HasOffset(lc) \/ HasCharttime(lc) \/ lc \in {"time", "timestamp", "first_icu_intime"}

IdNames(sc) ==
  CASE sc = "eICU"      -> {"patientunitstayid", "patient_id", "subject_id"}
    [] sc = "mimic_III" -> {"subject_id", "patientunitstayid", "patient_id", "pid", "patient"}
    [] sc = "mimic_IV"  -> {"subject_id", "subjectid", "patientunitstayid", "patient_id", "pid", "patient"}

\* pd.api.types.is_numeric_dtype(df[c]): read_csv gives a numeric dtype to a
\* column with at least one row whose cells all parse as numbers
is_numeric_dtype(df, c) ==
  Len(df.rows) > 0 /\ \A i \in 1..Len(df.rows) : df.rows[i][c].k = "num"

_guess_value_col(sc, df, var) ==
  IF ByLower(df.cols, VarLower(var)) # NoCol THEN ByLower(df.cols, VarLower(var))
  ELSE IF FirstKey(df.cols, ValueKeys, 1) # NoCol THEN FirstKey(df.cols, ValueKeys, 1)
  ELSE LET P(c) == /\ ~HasUnitFlag(lower(c))
                   /\ (sc # "eICU" => ~HasTimeWord(lower(c)))
                   /\ lower(c) \notin IdNames(sc)
                   /\ is_numeric_dtype(df, c)
       IN  FirstCol(df.cols, P)

\* ------------------------------------------------ relative-time resolver
NonNull(s) == SelectSeq(s, LAMBDA a : ~IsNaN(a))

\* the k-th smallest element of a sequence of rationals
Kth(s, k) ==
  LET below(x) == Cardinality({j \in 1..Len(s) : RLt(s[j], x)})
      upto(x)  == Cardinality({j \in 1..Len(s) : RLe(s[j], x)})
  IN  s[CHOOSE i \in 1..Len(s) : below(s[i]) < k /\ k <= upto(s[i])]

\* np.nanmedian over the non-null values (s non-empty, without NaN)
nanmedian(s) ==
  LET m == Len(s)
  IN  IF m % 2 = 1 THEN Kth(s, (m + 1) \div 2)
      ELSE LET a == Kth(s, m \div 2)
               b == Kth(s, (m \div 2) + 1)
           IN  [n |-> a.n * b.d + b.n * a.d, d |-> 2 * a.d * b.d]

\* the test that sends a time column to the offset branch
OffsetLike(sc, name) ==
  \/ HasOffset(name)
  \/ EndsCharttime(name)
  \/ (sc # "eICU" /\ name \in {"hours", "hour"})

\* np.where(abs(s_num) > 500, s_num / 60.0, s_num): the unit decided per record
ScaleEachBug(s_num, med) ==
  [i \in 1..Len(s_num) |->
     IF ~IsNaN(s_num[i]) /\ RLt(Num(MED_MINUTES), RAbs(s_num[i]))
     THEN RDivInt(s_num[i], MIN_PER_H) ELSE s_num[i]]

ScaleBug(s_num, med) ==
  IF RLe(Num(MED_MINUTES), RAbs(med))
  THEN [i \in 1..Len(s_num) |-> RDivInt(s_num[i], MIN_PER_H)]
  ELSE s_num

\* s_num / 60.0 if abs(med) > 500 else s_num
Scale(s_num, med) ==
  IF RLt(Num(MED_MINUTES), RAbs(med))
  THEN [i \in 1..Len(s_num) |-> RDivInt(s_num[i], MIN_PER_H)]
  ELSE s_num

\* st = "ok": s holds the hours; "none": return None; "raise": ValueError
_ensure_hours_series(sc, s, time_col_name) ==
  LET name  == lower(time_col_name)
      s_num == [i \in 1..Len(s) |-> to_numeric(s[i])]
      fail  == [st |-> IF sc = "eICU" THEN "raise" ELSE "none", s |-> <<>>]
  IN  IF OffsetLike(sc, name)
      THEN IF NonNull(s_num) = <<>> THEN fail
           ELSE [st |-> "ok", s |-> Scale(s_num, nanmedian(NonNull(s_num)))]
      ELSE IF NonNull(s_num) # <<>> THEN [st |-> "ok", s |-> s_num]
      ELSE fail

\* ------------------------------------------------- positive-time binner
InWindowBug(abs_h) == RLt(Num(ABS_START_H), abs_h) /\ RLe(abs_h, Num(ABS_END_H))

\* mask = (abs_h >= ABS_START_H) & (abs_h < ABS_END_H)
InWindow(abs_h) == RLe(Num(ABS_START_H), abs_h) /\ RLt(abs_h, Num(ABS_END_H))

AssignSignedBug(h) ==
  IF IsNaN(h) THEN NaN
  ELSE LET idx == clip(Ceil(Rat(h.n - ABS_START_H * h.d, BIN_H * h.d)), 1, N_BINS)
       IN  IF InWindow(h) THEN Num(ABS_START_H + idx * BIN_H) ELSE NaN

AssignFloorBug(h) ==
  IF IsNaN(h) THEN NaN
  ELSE LET abs_h == RAbs(h)
           idx   == clip(((abs_h.n - ABS_START_H * abs_h.d) \div (BIN_H * abs_h.d)) + 1,
                         1, N_BINS)
       IN  IF InWindow(abs_h) THEN Num(ABS_START_H + idx * BIN_H) ELSE NaN

AssignNoClipBug(h) ==
  IF IsNaN(h) THEN NaN
  ELSE LET abs_h == RAbs(h)
           idx   == Ceil(Rat(abs_h.n - ABS_START_H * abs_h.d, BIN_H * abs_h.d))
       IN  IF InWindow(abs_h) THEN Num(ABS_START_H + idx * BIN_H) ELSE NaN

\* one element of _assign_bin_end_hours_abs: the bin's right endpoint, or NaN
\* for an element the mask leaves out
_assign_bin_end_hours_abs(h) ==
  IF IsNaN(h) THEN NaN
  ELSE LET abs_h == RAbs(h)
           idx   == clip(Ceil(Rat(abs_h.n - ABS_START_H * abs_h.d, BIN_H * abs_h.d)),
                         1, N_BINS)
       IN  IF InWindow(abs_h) THEN Num(ABS_START_H + idx * BIN_H) ELSE NaN

\* ---------------------------------------------------------- data frames
\* a frame is [cols |-> <<names>>, rows |-> <<tuples aligned with cols>>]; the
\* id and rel_hour columns hold integers, the value and _obs columns rationals
Zero == Num(0)
One  == Num(1)

\* the position of column c in frame df
Col(df, c) == CHOOSE i \in 1..Len(df.cols) : df.cols[i] = c

IdName(sc) ==
  CASE sc = "eICU"      -> "patientunitstayid"
    [] sc = "mimic_III" -> "SUBJECT_ID"
    [] sc = "mimic_IV"  -> "subject_id"

\* f"{var}_obs"
ObsCol(var) ==
  CASE var = "Albumin"    -> "Albumin_obs"
    [] var = "Creatinine" -> "Creatinine_obs"
    [] var = "Hemoglobin" -> "Hemoglobin_obs"
    [] var = "Potassium"  -> "Potassium_obs"
    [] var = "Sodium"     -> "Sodium_obs"

\* the elements of s at the indices satisfying P, in order
FilterIdx(s, P(_)) ==
  LET I      == {i \in 1..Len(s) : P(i)}
      nth(p) == CHOOSE i \in I : Cardinality({j \in I : j <= i}) = p
  IN  [p \in 1..Cardinality(I) |-> s[nth(p)]]

\* a stable sort: pandas sorts several keys with a stable lexicographic sort
StableSort(s, Less(_, _)) ==
  LET m      == Len(s)
      pos(i) == 1 + Cardinality({j \in 1..m :
                       Less(s[j], s[i]) \/ (~Less(s[i], s[j]) /\ j < i)})
  IN  [p \in 1..m |-> s[CHOOSE i \in 1..m : pos(i) = p]]

\* concatenation of B[lo], ..., B[hi]
RECURSIVE Flat(_, _, _)
Flat(B, lo, hi) ==
  IF lo > hi THEN <<>>
  ELSE IF lo = hi THEN B[lo]
  ELSE LET mid == (lo + hi) \div 2
       IN  Flat(B, lo, mid) \o Flat(B, mid + 1, hi)

\* left.merge(right, on=on, how="left"); no column of right outside on is in
\* left. Each left row is followed by the columns of every right row with its
\* key, or by nulls when there is none (as for every row when right is empty)
MergeOuterBug(left, right, on) ==
  LET xi     == FilterIdx([i \in 1..Len(right.cols) |-> i],
                          LAMBDA i : right.cols[i] \notin Range(on))
      lk     == [k \in 1..Len(on) |-> Col(left, on[k])]
      rk     == [k \in 1..Len(on) |-> Col(right, on[k])]
      miss   == [j \in 1..Len(xi) |-> NaN]
      rkeys  == {[k \in 1..Len(on) |-> right.rows[i][rk[k]]] : i \in 1..Len(right.rows)}
      one(l) == IF [k \in 1..Len(on) |-> l[lk[k]]] \notin rkeys THEN <<l \o miss>>
                ELSE LET hit == SelectSeq(right.rows,
                                          LAMBDA r : \A k \in 1..Len(on) : r[rk[k]] = l[lk[k]])
                     IN  [h \in 1..Len(hit) |-> l \o [j \in 1..Len(xi) |-> hit[h][xi[j]]]]
      B      == [i \in 1..Len(left.rows) |-> one(left.rows[i])]
      lone   == SelectSeq(right.rows,
                          LAMBDA r : \A i \in 1..Len(left.rows) :
                                       \E k \in 1..Len(on) : r[rk[k]] # left.rows[i][lk[k]])
      pad(r) == [c \in 1..Len(left.cols) |->
                   IF \E k \in 1..Len(on) : lk[k] = c
                   THEN r[rk[CHOOSE k \in 1..Len(on) : lk[k] = c]]
                   ELSE NaN] \o [j \in 1..Len(xi) |-> r[xi[j]]]
  IN  [cols |-> left.cols \o [j \in 1..Len(xi) |-> right.cols[xi[j]]],
       rows |-> Flat(B, 1, Len(left.rows)) \o [i \in 1..Len(lone) |-> pad(lone[i])]]

merge_left(left, right, on) ==
  LET xi     == FilterIdx([i \in 1..Len(right.cols) |-> i],
                          LAMBDA i : right.cols[i] \notin Range(on))
      lk     == [k \in 1..Len(on) |-> Col(left, on[k])]
      rk     == [k \in 1..Len(on) |-> Col(right, on[k])]
      miss   == [j \in 1..Len(xi) |-> NaN]
      rkeys  == {[k \in 1..Len(on) |-> right.rows[i][rk[k]]] : i \in 1..Len(right.rows)}
      one(l) == IF [k \in 1..Len(on) |-> l[lk[k]]] \notin rkeys THEN <<l \o miss>>
                ELSE LET hit == SelectSeq(right.rows,
                                          LAMBDA r : \A k \in 1..Len(on) : r[rk[k]] = l[lk[k]])
                     IN  [h \in 1..Len(hit) |-> l \o [j \in 1..Len(xi) |-> hit[h][xi[j]]]]
      B      == [i \in 1..Len(left.rows) |-> one(left.rows[i])]
  IN  [cols |-> left.cols \o [j \in 1..Len(xi) |-> right.cols[xi[j]]],
       rows |-> IF right.rows = <<>>
                THEN [i \in 1..Len(left.rows) |-> left.rows[i] \o miss]
                ELSE Flat(B, 1, Len(left.rows))]

\* ids.merge(grid, how="cross")
merge_cross(sc, idseq, grid) ==
  [cols |-> <<IdName(sc), "rel_hour">>,
   rows |-> [p \in 1..(Len(idseq) * Len(grid)) |->
               <<idseq[((p - 1) \div Len(grid)) + 1], grid[((p - 1) % Len(grid)) + 1]>>]]

FillNoneBug(df, c) == df

\* panel.fillna(0): every column filled
FillAllBug(df, c) ==
  [cols |-> df.cols,
   rows |-> [i \in 1..Len(df.rows) |->
               [j \in 1..Len(df.cols) |->
                  IF j > 2 /\ IsNaN(df.rows[i][j]) THEN Zero ELSE df.rows[i][j]]]]

\* panel[obs_col].fillna(0).astype(int)
fillna0(df, c) ==
  LET ci == Col(df, c)
  IN  [cols |-> df.cols,
       rows |-> [i \in 1..Len(df.rows) |->
                   IF IsNaN(df.rows[i][ci]) THEN [df.rows[i] EXCEPT ![ci] = Zero]
                   ELSE df.rows[i]]]

\* drop_duplicates over a sequence: the first occurrence of each element
drop_duplicates(s) ==
  LET P(i) == \A j \in 1..(i - 1) : s[j] # s[i] IN FilterIdx(s, P)

\* ------------------------------------------------------ _bin_one_variable
EmptyAgg(sc, var) ==
  [cols |-> <<IdName(sc), "rel_hour", var, ObsCol(var)>>, rows |-> <<>>]

LessAbsBug(a, b) ==
  \/ a.id < b.id
  \/ a.id = b.id /\ RLt(a.rel, b.rel)
  \/ a.id = b.id /\ REq(a.rel, b.rel) /\ RLt(RAbs(a.hours), RAbs(b.hours))

\* the order of sort_values([id, "_rel_hour", "_hours"])
LessIdBinHours(a, b) ==
  \/ a.id < b.id
  \/ a.id = b.id /\ RLt(a.rel, b.rel)
  \/ a.id = b.id /\ REq(a.rel, b.rel) /\ RLt(a.hours, b.hours)

TailAllBug(s) == s

\* groupby([id, "_rel_hour"]).tail(1): the last row of each group, in row order
TailOne(s) ==
  LET P(i) == \A j \in (i + 1)..Len(s) : ~(s[j].id = s[i].id /\ s[j].rel = s[i].rel)
  IN  FilterIdx(s, P)

KeepValuedBug(df) == SelectSeq(df, LAMBDA r : ~IsNaN(r.rel) /\ ~IsNaN(r.val))

\* df[df["_rel_hour"].notna()]
KeepInWindow(df) == SelectSeq(df, LAMBDA r : ~IsNaN(r.rel))

\* df[df[id].isin(ids_df[id])] of the MIMIC scripts; the eICU script has none
Isin(sc, rows, idseq) ==
  IF sc = "eICU" THEN rows
  ELSE SelectSeq(rows, LAMBDA r : r.id \in Range(idseq))

\* _to_relative_hours_with_t0: (ts - t0).dt.total_seconds() / 3600.0, with
\* timestamps in minutes; t0map is the sequence of <<id, t0>> of the base rows
_to_relative_hours_with_t0(rows, t0map) ==
  [i \in 1..Len(rows) |->
     LET ts == to_datetime(rows[i].t)
         at == {j \in 1..Len(t0map) : t0map[j][1] = rows[i].id}
         t0 == IF at = {} THEN NaN ELSE t0map[CHOOSE j \in at : TRUE][2]
     IN  IF IsNaN(ts) \/ IsNaN(t0) THEN NaN ELSE Rat(ts.n - t0.n, MIN_PER_H)]

\* Series.map(t0_map) needs a uniquely valued index
UniqueIndex(t0map) ==
  \A i, j \in 1..Len(t0map) : t0map[i][1] = t0map[j][1] => i = j

\* pd.DataFrame(columns=[id, "rel_hour", var, f"{var}_obs"]) of the except branch
Placeholder(sc, var) == EmptyAgg(sc, var)

\* the rows of the analyte file, the id made numeric
ReadRecords(file, pcol, tcol, vcol) ==
  [i \in 1..Len(file.rows) |->
     [idc |-> to_numeric(file.rows[i][pcol]),
      t   |-> file.rows[i][tcol],
      v   |-> file.rows[i][vcol]]]

\* df[df[id].notna()], the id as int
NormalizeId(raw) ==
  LET keep == SelectSeq(raw, LAMBDA r : ~IsNaN(r.idc))
  IN  [i \in 1..Len(keep) |-> [id |-> keep[i].idc.n, t |-> keep[i].t, v |-> keep[i].v]]

\* the _hours, _rel_hour and _val columns
Binned(df, hours) ==
  [i \in 1..Len(df) |->
     [id    |-> df[i].id,
      hours |-> hours[i],
      rel   |-> _assign_bin_end_hours_abs(hours[i]),
      val   |-> to_numeric(df[i].v)]]

\* the renamed columns of the rows kept, and <var>_obs = 1
AggFrame(sc, var, last) ==
  [cols |-> EmptyAgg(sc, var).cols,
   rows |-> [i \in 1..Len(last) |-> <<last[i].id, last[i].rel.n, last[i].val, One>>]]

\* the window filter, the sort and the last row of each (id, bin)
Aggregate(sc, var, df) ==
  AggFrame(sc, var, TailOne(StableSort(KeepInWindow(df), LessIdBinHours)))

\* st = "raise" stands for any exception
Raise(sc, var) == [st |-> "raise", agg |-> EmptyAgg(sc, var)]

\* from the result eh of _ensure_hours_series on
BinResolved(sc, var, df, t0map, eh) ==
  IF eh.st = "raise" THEN Raise(sc, var)
  ELSE IF eh.st = "ok" THEN [st |-> "ok", agg |-> Aggregate(sc, var, Binned(df, eh.s))]
  ELSE IF ~UniqueIndex(t0map) THEN Raise(sc, var)
  ELSE [st |-> "ok",
        agg |-> Aggregate(sc, var, Binned(df, _to_relative_hours_with_t0(df, t0map)))]

\* from the records of the cohort on; the MIMIC scripts return at once when
\* there is none
BinRecords(sc, var, df, tcol, t0map) ==
  IF sc # "eICU" /\ df = <<>> THEN [st |-> "ok", agg |-> EmptyAgg(sc, var)]
  ELSE BinResolved(sc, var, df, t0map,
                   _ensure_hours_series(sc, [i \in 1..Len(df) |-> df[i].t], tcol))

\* from the guessed columns on; NoCol is the ValueError of a guess
BinColumns(sc, var, file, idseq, t0map, pcol, tcol, vcol) ==
  IF pcol = NoCol \/ tcol = NoCol \/ vcol = NoCol THEN Raise(sc, var)
  ELSE BinRecords(sc, var,
                  Isin(sc, NormalizeId(ReadRecords(file, pcol, tcol, vcol)), idseq),
                  tcol, t0map)

\* file is [exists, cols, rows]; read_csv raises when the file is absent
_bin_one_variable(sc, var, file, idseq, t0map) ==
  IF ~file.exists THEN Raise(sc, var)
  ELSE BinColumns(sc, var, file, idseq, t0map,
                  _guess_patient_col(sc, file.cols),
                  _guess_time_col(sc, file.cols, var),
                  _guess_value_col(sc, file, var))

\* ------------------------------------------------------------ the inputs
SeqsUpTo(S, m) == UNION {[1..k -> S] : k \in 0..m}

IdCells   == {NumCell(i, 1) : i \in 1..MaxId} \cup {BadCell}
T0Cells   == {TsCell(0)}
TimeCells == {NumCell(-12, 1), NumCell(11, 1)}
ValCells  == {NumCell(7, 1), BadCell}

\* time cells of analyte files that hold absolute timestamps: 11 hours after
\* the epoch, and an unparseable one; t0 cells: the epoch, and an unparseable one
StampCells == {TsCell(11 * MIN_PER_H), BadCell}
AnchorT0Cells == {TsCell(0), BadCell}
\* hours at the two ends of the window: the first and the last hour inside,
\* on either side of zero, and the nearest hours outside
EdgeCells == {NumCell(ABS_START_H - 1, 1), NumCell(ABS_START_H, 1),
              NumCell(1 - ABS_END_H, 1), NumCell(ABS_END_H, 1)}
\* the cells of the analyte files: plain hours and any value ("hours"),
\* absolute timestamps ("stamps"), plain hours and numeric values ("values"),
\* hours at the ends of the window ("edges")
TimePool == CASE feed = "stamps" -> StampCells
              [] feed = "edges"  -> EdgeCells
              [] feed = "pair"   -> {NumCell(11, 1)}
              [] OTHER           -> TimeCells
\* two values that differ, for records that tie on their hours ("ties")
TieVals  == {NumCell(7, 1), NumCell(9, 1)}
ValPool  == CASE feed = "hours" -> ValCells
              [] feed = "ties"  -> TieVals
              [] OTHER          -> {NumCell(7, 1)}

BaseCols(sc) ==
  CASE sc = "eICU"      -> <<"patientunitstayid">>
    [] sc = "mimic_III" -> <<"SUBJECT_ID", "FIRST_ICU_INTIME">>
    [] sc = "mimic_IV"  -> <<"subject_id", "first_icu_intime">>

BaseRows(sc) ==
  IF sc = "eICU" THEN {(BaseCols(sc)[1] :> a) : a \in IdCells}
  ELSE {(BaseCols(sc)[1] :> a) @@ (BaseCols(sc)[2] :> b) : a \in IdCells, b \in T0Cells}

BaseFiles(sc) ==
  {[cols |-> BaseCols(sc), rows |-> r] : r \in SeqsUpTo(BaseRows(sc), MaxBase)}

\* headers of analyte files: with a plain time column, and without a time column
Headers ==
  {<<"SUBJECT_ID", "CHARTTIME", "VALUENUM">>,
   <<"subject_id", "valuenum">>}

RecIdCells == {NumCell(i, 1) : i \in 1..MaxId}

\* base files of the MIMIC scripts whose t0 may fail to parse
AnchorBases(sc) ==
  {[cols |-> BaseCols(sc), rows |-> r] :
     r \in SeqsUpTo({(BaseCols(sc)[1] :> a) @@ (BaseCols(sc)[2] :> b) :
                       a \in RecIdCells, b \in AnchorT0Cells}, MaxBase)}

DataRows(h) ==
  IF Len(h) < 3 THEN {}
  ELSE {(h[1] :> a) @@ (h[2] :> b) @@ (h[3] :> c) :
          a \in RecIdCells, b \in TimePool, c \in ValPool}

\* records whose time parses neither as a number nor as a timestamp
BadTimeRows(h) ==
  IF Len(h) < 3 THEN {}
  ELSE {(h[1] :> a) @@ (h[2] :> BadCell) @@ (h[3] :> c) : a \in RecIdCells, c \in ValPool}

AbsentFile == [exists |-> FALSE, cols |-> <<>>, rows |-> <<>>]

RECURSIVE SumLen(_, _)
SumLen(fs, i) == IF i > Len(fs) THEN 0 ELSE Len(fs[i].rows) + SumLen(fs, i + 1)

NExist(fs) == Cardinality({i \in 1..Len(fs) : fs[i].exists})

\* analyte files of one run that exist: two when a run is to merge the
\* records of two analytes ("pair")
FilesCap == IF feed = "pair" THEN MaxFiles + 1 ELSE MaxFiles

\* the analyte files a run may meet next, given those it has read
FileChoices(fs) ==
  {AbsentFile} \cup
  (IF NExist(fs) >= FilesCap THEN {}
   ELSE UNION {{[exists |-> TRUE, cols |-> h, rows |-> r] :
                  r \in SeqsUpTo(DataRows(h), MaxRecs - SumLen(fs, 1)) \cup
                        SeqsUpTo(BadTimeRows(h), 1)} : h \in Headers})

\* the file of analyte k: the one read before when a run is repeated on
\* unchanged inputs
Readable(fs, k) == IF k <= Len(fs) THEN {fs[k]} ELSE FileChoices(fs)

\* ------------------------------------------------------------------ main
NoFrame == [cols |-> <<>>, rows |-> <<>>]

\* the valid ids of the base file, in row order
BaseValid(sc, b) ==
  LET idc == _guess_patient_col(sc, b.cols)
  IN  SelectSeq(b.rows, LAMBDA r : ~IsNaN(to_numeric(r[idc])))

\* ids: the distinct valid ids of the base file
LoadIds(sc, b) ==
  LET idc == _guess_patient_col(sc, b.cols)
      v   == BaseValid(sc, b)
  IN  drop_duplicates([i \in 1..Len(v) |-> to_numeric(v[i][idc]).n])

\* t0_map = base.set_index(id)["_t0"]: one entry per valid base row
LoadT0(sc, b) ==
  LET idc == _guess_patient_col(sc, b.cols)
      v   == BaseValid(sc, b)
  IN  IF sc = "eICU" THEN <<>>
      ELSE [i \in 1..Len(v) |->
              <<to_numeric(v[i][idc]).n, to_datetime(v[i][ByLower(b.cols, "first_icu_intime")])>>]

\* rows whose column bc lies in lo..hi, sorted by it, equal keys in row order
RECURSIVE SortByBin(_, _, _, _)
SortByBin(rs, bc, lo, hi) ==
  IF Len(rs) <= 1 \/ lo >= hi THEN rs
  ELSE LET mid == (lo + hi) \div 2
       IN  SortByBin(SelectSeq(rs, LAMBDA r : r[bc] <= mid), bc, lo, mid) \o
           SortByBin(SelectSeq(rs, LAMBDA r : r[bc] > mid), bc, mid + 1, hi)

RECURSIVE SortById(_, _, _, _)
SortById(rs, ic, bc, S) ==
  IF S = {} THEN <<>>
  ELSE LET m == CHOOSE x \in S : \A y \in S : x <= y
       IN  SortByBin(SelectSeq(rs, LAMBDA r : r[ic] = m), bc, ABS_START_H, ABS_END_H) \o
           SortById(rs, ic, bc, S \ {m})

\* panel.sort_values([id, "rel_hour"]).reset_index(drop=True): a stable sort;
\* the rel_hour of a panel row is one of GRID_ENDS
sort_values(sc, df) ==
  LET ic     == Col(df, IdName(sc))
      bc     == Col(df, "rel_hour")
      sorted == \A i \in 1..(Len(df.rows) - 1) :
                  \/ df.rows[i][ic] < df.rows[i + 1][ic]
                  \/ df.rows[i][ic] = df.rows[i + 1][ic] /\ df.rows[i][bc] <= df.rows[i + 1][bc]
  IN  [cols |-> df.cols,
       rows |-> IF sorted THEN df.rows
                ELSE SortById(df.rows, ic, bc, {df.rows[i][ic] : i \in 1..Len(df.rows)})]

NoResult == [st |-> "", s |-> <<>>]
NoSeries == [kept |-> <<>>, pos |-> <<>>, cleaned |-> <<>>, out |-> <<>>]
NoAgg    == [st |-> "", agg |-> NoFrame]
NoCall   == [fn |-> "", cands |-> <<>>]
NoPick   == [st |-> "", col |-> NoCol, exc |-> "", names |-> <<>>, headers |-> <<>>]

\* the variables of the parts that do not run
StepIdle == hin = NaN /\ hout = NaN /\ sin = <<>> /\ tname = NoCol /\ sout = NoResult
LabIdle  == analyte = "" /\ lab = <<>> /\ series = NoSeries /\ agg = NoAgg
PickIdle == resolver = NoCall /\ header = <<>> /\ picked = NoPick
FsIdle   ==
  /\ tool = "" /\ src = NoResult /\ dst = NoResult /\ chunks = <<>>
  /\ flag = FALSE /\ total = 0 /\ chunksize = 0 /\ once = NoResult

NoMerged == [k |-> 0, rows |-> <<>>]

StatIdle ==
  /\ icu = <<>> /\ first_icu = NoResult /\ sources = <<>> /\ deduped = <<>>
  /\ merged = NoMerged

Init ==
  /\ script \in Scripts
  /\ base \in BaseFiles(script)
  /\ pc = "start"
  /\ ids = <<>>
  /\ t0_map = <<>>
  /\ files = <<>>
  /\ kvar = 0
  /\ panel = NoFrame
  /\ failed = {}
  /\ out = NoFrame
  /\ feed = "hours" /\ run = 1 /\ prev = NoFrame
  /\ StepIdle /\ LabIdle /\ PickIdle /\ FsIdle /\ StatIdle

\* main, step 1: the base ids (and t0) and the skeleton
Skeleton ==
  /\ pc = "start"
  /\ ids' = LoadIds(script, base)
  /\ t0_map' = LoadT0(script, base)
  /\ panel' = merge_cross(script, ids', GRID_ENDS)
  /\ kvar' = 1
  /\ pc' = "loop"
  /\ UNCHANGED <<script, base, files, failed, out, hin, hout, sin, tname, sout>>
  /\ UNCHANGED <<runVars, labVars, pickVars, fsVars, statVars>>

TryNoCatchBug(sc, var, res) ==
  IF res.st = "raise" THEN [st |-> "abort", agg |-> res.agg] ELSE res

\* try: agg = _bin_one_variable(...) / except Exception: agg = placeholder
Try(sc, var, res) ==
  IF res.st = "raise" THEN [st |-> "warn", agg |-> Placeholder(sc, var)] ELSE res

\* main, step 2: one pass of the loop over VAR_FILES, the try/except included;
\* an exception that leaves the try statement ends the run
ProcessVar ==
  /\ pc = "loop"
  /\ \E f \in Readable(files, kvar) :
       LET var == VARS[kvar]
           res == Try(script, var, _bin_one_variable(script, var, f, ids, t0_map))
       IN  /\ files' = IF kvar <= Len(files) THEN files ELSE Append(files, f)
           /\ failed' = IF res.st = "warn" THEN failed \cup {var} ELSE failed
           /\ IF res.st = "abort"
              THEN /\ pc' = "aborted"
                   /\ UNCHANGED <<panel, kvar>>
              ELSE /\ panel' = fillna0(merge_left(panel, res.agg,
                                                  <<IdName(script), "rel_hour">>),
                                       ObsCol(var))
                   /\ kvar' = kvar + 1
                   /\ pc' = IF kvar = Len(VARS) THEN "sort" ELSE "loop"
  /\ UNCHANGED <<script, base, ids, t0_map, out, hin, hout, sin, tname, sout>>
  /\ UNCHANGED <<runVars, labVars, pickVars, fsVars, statVars>>

ToCsvAppendBug(old, df) == [cols |-> df.cols, rows |-> old.rows \o df.rows]

\* panel.to_csv(OUT_CSV, index=False): the file is opened for writing, what
\* it held is lost
to_csv(old, df) == df

\* main, step 3: sort and export
Export ==
  /\ pc = "sort"
  /\ panel' = sort_values(script, panel)
  /\ out' = to_csv(out, panel')
  /\ pc' = "done"
  /\ UNCHANGED <<script, base, ids, t0_map, files, kvar, failed, hin, hout, sin, tname, sout>>
  /\ UNCHANGED <<runVars, labVars, pickVars, fsVars, statVars>>

Next == Skeleton \/ ProcessVar \/ Export

Spec == Init /\ [][Next]_vars

\* ------------------------------- main, run twice on unchanged inputs
InitRerun ==
  /\ script \in Scripts
  /\ base \in BaseFiles(script)
  /\ pc = "start"
  /\ ids = <<>>
  /\ t0_map = <<>>
  /\ files = <<>>
  /\ kvar = 0
  /\ panel = NoFrame
  /\ failed = {}
  /\ out = NoFrame
  /\ feed = "values" /\ run = 1 /\ prev = NoFrame
  /\ StepIdle /\ LabIdle /\ PickIdle /\ FsIdle /\ StatIdle

\* the script is started again: nothing is kept but the files on disk, OUT_CSV
\* among them
Restart ==
  /\ pc = "done" /\ run = 1
  /\ run' = 2
  /\ prev' = out
  /\ pc' = "start"
  /\ ids' = <<>> /\ t0_map' = <<>> /\ kvar' = 0 /\ panel' = NoFrame /\ failed' = {}
  /\ UNCHANGED <<script, base, files, out, feed>>
  /\ UNCHANGED <<stepVars, labVars, pickVars, fsVars, statVars>>

NextRerun == Next \/ Restart

SpecRerun == InitRerun /\ [][NextRerun]_vars

\* ------------------------------------ main over two analytes with records
\* base files whose ids are all valid
ValidBases(sc) ==
  {b \in BaseFiles(sc) : \A i \in 1..Len(b.rows) : b.rows[i][b.cols[1]].k = "num"}

InitPair ==
  /\ script \in {"eICU", "mimic_III"}
  /\ base \in ValidBases(script)
  /\ pc = "start"
  /\ ids = <<>>
  /\ t0_map = <<>>
  /\ files = <<>>
  /\ kvar = 0
  /\ panel = NoFrame
  /\ failed = {}
  /\ out = NoFrame
  /\ feed = "pair" /\ run = 1 /\ prev = NoFrame
  /\ StepIdle /\ LabIdle /\ PickIdle /\ FsIdle /\ StatIdle

SpecPair == InitPair /\ [][Next]_vars

\* ------------------------------ main over records that tie on the hour
InitTies ==
  /\ script \in {"eICU", "mimic_III"}
  /\ base \in BaseFiles(script)
  /\ pc = "start"
  /\ ids = <<>>
  /\ t0_map = <<>>
  /\ files = <<>>
  /\ kvar = 0
  /\ panel = NoFrame
  /\ failed = {}
  /\ out = NoFrame
  /\ feed = "ties" /\ run = 1 /\ prev = NoFrame
  /\ StepIdle /\ LabIdle /\ PickIdle /\ FsIdle /\ StatIdle

SpecTies == InitTies /\ [][Next]_vars

\* --------------------------- main over hours at the ends of the window
InitEdges ==
  /\ script \in Scripts
  /\ base \in BaseFiles(script)
  /\ pc = "start"
  /\ ids = <<>>
  /\ t0_map = <<>>
  /\ files = <<>>
  /\ kvar = 0
  /\ panel = NoFrame
  /\ failed = {}
  /\ out = NoFrame
  /\ feed = "edges" /\ run = 1 /\ prev = NoFrame
  /\ StepIdle /\ LabIdle /\ PickIdle /\ FsIdle /\ StatIdle

SpecEdges == InitEdges /\ [][Next]_vars

\* ------------------ main of the MIMIC scripts over absolute timestamps
InitAnchor ==
  /\ script \in {"mimic_III", "mimic_IV"}
  /\ base \in AnchorBases(script)
  /\ pc = "start"
  /\ ids = <<>>
  /\ t0_map = <<>>
  /\ files = <<>>
  /\ kvar = 0
  /\ panel = NoFrame
  /\ failed = {}
  /\ out = NoFrame
  /\ feed = "stamps" /\ run = 1 /\ prev = NoFrame
  /\ StepIdle /\ LabIdle /\ PickIdle /\ FsIdle /\ StatIdle

SpecAnchor == InitAnchor /\ [][Next]_vars

\* ------------------------------------- the binner alone, over many hours
RNeg(a) == [n |-> -a.n, d |-> a.d]

\* half hours up to MaxHour, the neighbours (1/1000 h) of the window's ends
\* and of the first endpoints, tenths, and NaN
HourInputs ==
  {Rat(k, 2) : k \in (-2 * MaxHour)..(2 * MaxHour)} \cup
  {Rat(sg * (1000 * k + j), 1000) : sg \in {-1, 1}, k \in {8, 10, 12, 718, 720}, j \in {-1, 0, 1}} \cup
  {Rat(sg * k, 10) : sg \in {-1, 1}, k \in {101, 109}} \cup
  {NaN}

MainIdle ==
  /\ base = NoFrame /\ ids = <<>> /\ t0_map = <<>> /\ files = <<>> /\ kvar = 0
  /\ panel = NoFrame /\ failed = {} /\ out = NoFrame
  /\ feed = "hours" /\ run = 1 /\ prev = NoFrame

Idle == MainIdle /\ LabIdle /\ PickIdle /\ FsIdle /\ StatIdle

InitAssign ==
  /\ script \in Scripts
  /\ pc = "assign"
  /\ hin \in HourInputs
  /\ hout = NaN
  /\ sin = <<>> /\ tname = NoCol /\ sout = NoResult
  /\ Idle

Assign ==
  /\ pc = "assign"
  /\ hout' = _assign_bin_end_hours_abs(hin)
  /\ pc' = "assigned"
  /\ UNCHANGED <<script, base, ids, t0_map, files, kvar, panel, failed, out,
                 hin, sin, tname, sout>>
  /\ UNCHANGED <<runVars, labVars, pickVars, fsVars, statVars>>

SpecAssign == InitAssign /\ [][Assign]_vars

\* ----------------------------------- the resolver alone, over time columns
SerCells ==
  {NumCell(v, 1) : v \in {-1001, -500, 10, 500, 501, 1010}} \cup
  {NumCell(1001, 2), BadCell}

TimeNames == {"labresultoffset", "albumin_charttime", "hours", "hour", "CHARTTIME", "time"}

InitHours ==
  /\ script \in Scripts
  /\ pc = "resolve"
  /\ tname \in TimeNames
  /\ sin \in SeqsUpTo(SerCells, MaxSer)
  /\ sout = NoResult
  /\ hin = NaN /\ hout = NaN
  /\ Idle

Resolve ==
  /\ pc = "resolve"
  /\ sout' = _ensure_hours_series(script, sin, tname)
  /\ pc' = "resolved"
  /\ UNCHANGED <<script, base, ids, t0_map, files, kvar, panel, failed, out,
                 hin, hout, sin, tname>>
  /\ UNCHANGED <<runVars, labVars, pickVars, fsVars, statVars>>

SpecHours == InitHours /\ [][Resolve]_vars

\* ------------------------------------------------------ lab extractors
\* (eICU: extract_one of the four-analyte script; mimic_IV: extract_long of
\* the four-analyte script and the albumin script)
LabScripts == {"eICU", "mimic_IV"}

Analytes(sc) ==
  IF sc = "eICU" THEN {"Creatinine", "Sodium", "Potassium", "Hemoglobin"}
  ELSE {"Creatinine", "Sodium", "Potassium", "Hemoglobin", "Albumin"}

\* TARGETS[analyte]["range"], RANGE[analyte], (LOW, HIGH)
RANGE(a) ==
  CASE a = "Creatinine" -> [lo |-> Rat(1, 10),  hi |-> Num(20)]
    [] a = "Sodium"     -> [lo |-> Num(110),    hi |-> Num(170)]
    [] a = "Potassium"  -> [lo |-> Rat(15, 10), hi |-> Num(8)]
    [] a = "Hemoglobin" -> [lo |-> Num(3),      hi |-> Num(22)]
    [] a = "Albumin"    -> [lo |-> Num(2),      hi |-> Num(5)]

\* TARGETS[analyte]["out_unit"], OUT_UNIT[analyte]
OUT_UNIT(a) ==
  CASE a = "Creatinine" -> "mg/dL"
    [] a = "Sodium"     -> "mmol/L"
    [] a = "Potassium"  -> "mmol/L"
    [] a = "Hemoglobin" -> "g/dL"

UNIT_ALLOW(a) ==
  CASE a = "Creatinine" -> {"mg/dl"}
    [] a = "Sodium"     -> {"mmol/l", "meq/l"}
    [] a = "Potassium"  -> {"mmol/l", "meq/l"}
    [] a = "Hemoglobin" -> {"g/dl"}

\* the analytes whose values <= 0 are set to NaN
PositiveOnly == {"Creatinine", "Potassium", "Hemoglobin"}

\* astype(str).str.strip().str.lower() over the unit labels the model uses;
\* <U+00B5> is the micro sign, <U+03BC> the Greek letter mu, "nan" a missing cell
StripLower(u) ==
  CASE u = "mg/dL"          -> "mg/dl"
    [] u = " MG/L "         -> "mg/l"
    [] u = "umol/L"         -> "umol/l"
    [] u = "<U+00B5>mol/L"  -> "<U+00B5>mol/l"
    [] u = "<U+03BC>mol/L"  -> "<U+03BC>mol/l"
    [] u = "mmol/L"         -> "mmol/l"
    [] u = "mEq/L"          -> "meq/l"
    [] u = "g/dL"           -> "g/dl"
    [] u = "g/L"            -> "g/l"
    [] u = "Grams/dL"       -> "grams/dl"
    [] OTHER                -> u

\* .str.replace of the two micro characters by "u"
MicroToU(u) ==
  IF u \in {"<U+00B5>mol/l", "<U+03BC>mol/l"} THEN "umol/l" ELSE u

\* .str.replace of the spelled-out units
Spelled(u) == IF u = "grams/dl" THEN "g/dl" ELSE u

CANON_CREAT == "mg/dl"

\* umol/L -> mg/dL: / 88.4; mg/L -> mg/dL, g/L -> g/dL: / 10.0
UMOL_PER_MGDL == Rat(884, 10)
TEN           == Num(10)
\* mg/dL -> mmol/L: * (10.0 / 22.989), * (10.0 / 39.098); mmol/L -> g/dL: * 6.45
NA_FACTOR  == Rat(10 * 1000, 22989)
K_FACTOR   == Rat(10 * 1000, 39098)
HGB_FACTOR == Rat(645, 100)

ConvertCreatBug(x, u) ==
  IF u = "mg/l" THEN [v |-> RDiv(x, TEN), u |-> CANON_CREAT]
  ELSE IF u = "umol/l" THEN [v |-> RMul(x, UMOL_PER_MGDL), u |-> CANON_CREAT]
  ELSE [v |-> x, u |-> u]

\* convert_units, analyte == "Creatinine", on one row
ConvertCreat(x, u) ==
  IF u = "mg/l" THEN [v |-> RDiv(x, TEN), u |-> CANON_CREAT]
  ELSE IF u = "umol/l" THEN [v |-> RDiv(x, UMOL_PER_MGDL), u |-> CANON_CREAT]
  ELSE [v |-> x, u |-> u]

\* convert_units, analyte in ("Sodium", "Potassium")
ConvertNaK(a, x, u) ==
  IF u = "mg/dl"
  THEN [v |-> RMul(x, IF a = "Sodium" THEN NA_FACTOR ELSE K_FACTOR), u |-> "mmol/l"]
  ELSE IF u \in {"mmol/l", "meq/l"} THEN [v |-> x, u |-> "mmol/l"]
  ELSE [v |-> x, u |-> u]

\* convert_units, analyte == "Hemoglobin"
ConvertHgb(x, u) ==
  IF u = "g/l" THEN [v |-> RDiv(x, TEN), u |-> "g/dl"]
  ELSE IF u = "mmol/l" THEN [v |-> RMul(x, HGB_FACTOR), u |-> "g/dl"]
  ELSE [v |-> x, u |-> u]

\* convert_units on one row: the value and the unit label
convert_units(a, x, unit) ==
  LET u == Spelled(MicroToU(unit))
  IN  CASE a = "Creatinine"             -> ConvertCreat(x, u)
        [] a \in {"Sodium", "Potassium"} -> ConvertNaK(a, x, u)
        [] a = "Hemoglobin"             -> ConvertHgb(x, u)
        [] OTHER                        -> [v |-> x, u |-> u]

\* the rows of the analyte, typed: src is the index of the row in the table;
\* the eICU time is an offset (to_numeric), the MIMIC-IV time a timestamp
Typed(sc, rows) ==
  [i \in 1..Len(rows) |->
     [src |-> i,
      id  |-> rows[i].id,
      t   |-> IF sc = "eICU" THEN to_numeric(rows[i].t) ELSE to_datetime(rows[i].t),
      v   |-> to_numeric(rows[i].v),
      u   |-> StripLower(rows[i].u)]]

\* d[col_val], d[col_unit] = convert_units(analyte, d[col_val], d[col_unit])
Converted(a, d) ==
  [i \in 1..Len(d) |->
     [src |-> d[i].src, id |-> d[i].id, t |-> d[i].t,
      v |-> convert_units(a, d[i].v, d[i].u).v,
      u |-> convert_units(a, d[i].v, d[i].u).u]]

KeepAnyUnitBug(d, units) == d

\* d[d[col_unit].eq(keep_unit)], d[d[col_valueuom].isin(allowed)]
KeepUnit(d, units) == SelectSeq(d, LAMBDA r : r.u \in units)

\* d.loc[:, col_valueuom] = "mmol/l" for Sodium and Potassium
Relabel(a, d) ==
  [i \in 1..Len(d) |->
     [src |-> d[i].src, id |-> d[i].id, t |-> d[i].t, v |-> d[i].v,
      u |-> IF a \in {"Sodium", "Potassium"} THEN "mmol/l" ELSE d[i].u]]

SetNaN(d, Out(_)) ==
  [i \in 1..Len(d) |->
     [src |-> d[i].src, id |-> d[i].id, t |-> d[i].t, u |-> d[i].u,
      v |-> IF ~IsNaN(d[i].v) /\ Out(d[i].v) THEN NaN ELSE d[i].v]]

\* d.loc[d[col_val] <= 0, col_val] = np.nan, for three of the analytes
NonPositive(a, d) ==
  IF a \in PositiveOnly THEN SetNaN(d, LAMBDA x : RLe(x, Zero)) ELSE d

RangeClosedBug(a, d) ==
  SetNaN(d, LAMBDA x : RLe(x, RANGE(a).lo) \/ RLe(RANGE(a).hi, x))

\* d.loc[(d[col_val] < lo) | (d[col_val] > hi), col_val] = np.nan
RangeClean(a, d) ==
  SetNaN(d, LAMBDA x : RLt(x, RANGE(a).lo) \/ RLt(RANGE(a).hi, x))

\* d.dropna(subset=[col_val, col_time])
dropna(d) == SelectSeq(d, LAMBDA r : ~IsNaN(r.v) /\ ~IsNaN(r.t))

LessIdTime(r1, r2) == r1.id < r2.id \/ (r1.id = r2.id /\ RLt(r1.t, r2.t))

\* groupby(col_pid, as_index=False).first(): the first row of each patient
FirstPerId(d) ==
  LET P(i) == \A j \in 1..(i - 1) : d[j].id # d[i].id
  IN  FilterIdx(d, P)

\* d[out_unit] = desired_unit
Labelled(a, d) ==
  [i \in 1..Len(d) |->
     [src |-> d[i].src, id |-> d[i].id, t |-> d[i].t, v |-> d[i].v, u |-> OUT_UNIT(a)]]

\* the stages of extract_one and extract_long from the unit filter on
Stages(sc, a, kept) ==
  [kept    |-> kept,
   pos     |-> NonPositive(a, kept),
   cleaned |-> RangeClean(a, NonPositive(a, kept)),
   out     |-> Labelled(a,
                 IF sc = "eICU"
                 THEN FirstPerId(StableSort(dropna(RangeClean(a, NonPositive(a, kept))), LessIdTime))
                 ELSE StableSort(dropna(RangeClean(a, NonPositive(a, kept))), LessIdTime))]

\* extract_one of the eICU script
extract_one(a, rows) ==
  Stages("eICU", a, KeepUnit(Converted(a, Typed("eICU", rows)), {StripLower(OUT_UNIT(a))}))

\* extract_long of the MIMIC-IV script
extract_long(a, rows) ==
  Stages("mimic_IV", a, Relabel(a, KeepUnit(Typed("mimic_IV", rows), UNIT_ALLOW(a))))

\* the albumin script: the value without a leading comparison sign, as a
\* number; the unit label and the time as read
AlbuminTyped(rows) ==
  [i \in 1..Len(rows) |->
     [src |-> i, id |-> rows[i].id, t |-> to_datetime(rows[i].t), u |-> rows[i].u,
      v |-> IF rows[i].v.k \in {"num", "cmp"} THEN Rat(rows[i].v.n, rows[i].v.d) ELSE NaN]]

\* alb.loc[mask_out_of_range, "Albumin"] = pd.NA, and every row is written
extract_albumin(rows) ==
  [kept    |-> AlbuminTyped(rows),
   pos     |-> AlbuminTyped(rows),
   cleaned |-> RangeClean("Albumin", AlbuminTyped(rows)),
   out     |-> RangeClean("Albumin", AlbuminTyped(rows))]

\* the columns of the series file of analyte a
UomName(a) ==
  CASE a = "Albumin"    -> "valueuom"
    [] a = "Creatinine" -> "Creatinine_valueuom"
    [] a = "Sodium"     -> "Sodium_valueuom"
    [] a = "Potassium"  -> "Potassium_valueuom"
    [] a = "Hemoglobin" -> "Hemoglobin_valueuom"

TimeName(a) ==
  CASE a = "Albumin"    -> "Albumin_charttime"
    [] a = "Creatinine" -> "Creatinine_charttime"
    [] a = "Sodium"     -> "Sodium_charttime"
    [] a = "Potassium"  -> "Potassium_charttime"
    [] a = "Hemoglobin" -> "Hemoglobin_charttime"

\* to_csv of the series and read_csv of it by the panel script: a null value
\* or time is an empty cell, a unit label does not parse as a number
SeriesFile(a, d) ==
  [exists |-> TRUE,
   cols   |-> <<"subject_id", a, UomName(a), TimeName(a)>>,
   rows   |-> [i \in 1..Len(d) |->
                 ("subject_id" :> NumCell(d[i].id, 1)) @@
                 (a :> IF IsNaN(d[i].v) THEN BadCell ELSE NumCell(d[i].v.n, d[i].v.d)) @@
                 (UomName(a) :> BadCell) @@
                 (TimeName(a) :> IF IsNaN(d[i].t) THEN BadCell ELSE TsCell(d[i].t.n))]]

\* the lab tables: the rows that name the analyte
LabUnits(a) ==
  CASE a = "Creatinine" -> {"mg/dL", " MG/L ", "umol/L", "<U+00B5>mol/L", "<U+03BC>mol/L", "mmol/L"}
    [] a = "Sodium"     -> {"mmol/L", "mEq/L", "mg/dL", "nan"}
    [] a = "Potassium"  -> {"mmol/L", "mEq/L", "mg/dL", "nan"}
    [] a = "Hemoglobin" -> {"g/dL", "g/L", "Grams/dL", "mmol/L"}
    [] a = "Albumin"    -> {"g/dL", "g/L"}

CmpCell(i, j) == [k |-> "cmp", n |-> i, d |-> j]

LabVals(a) ==
  CASE a = "Creatinine" -> {NumCell(0, 1), NumCell(9, 100), NumCell(1, 10), NumCell(20, 1),
                            NumCell(201, 10), NumCell(100, 1), NumCell(884, 1)}
    [] a = "Sodium"     -> {NumCell(0, 1), NumCell(109, 1), NumCell(110, 1), NumCell(170, 1),
                            NumCell(171, 1)}
    [] a = "Potassium"  -> {NumCell(0, 1), NumCell(14, 10), NumCell(15, 10), NumCell(8, 1),
                            NumCell(81, 10)}
    [] a = "Hemoglobin" -> {NumCell(0, 1), NumCell(29, 10), NumCell(3, 1), NumCell(22, 1),
                            NumCell(221, 10)}
    [] a = "Albumin"    -> {NumCell(19, 10), NumCell(2, 1), NumCell(5, 1), NumCell(51, 10),
                            CmpCell(19, 10), BadCell}

\* offsets in minutes (eICU) and timestamps (MIMIC-IV): 10.5 h, 11 h, none
LabTimes(sc, a) ==
  IF sc = "eICU" THEN {NumCell(660, 1), BadCell}
  ELSE IF a = "Albumin" THEN {TsCell(630), TsCell(660), BadCell}
  ELSE {TsCell(660), BadCell}

LabRows(sc, a) ==
  {[id |-> e, u |-> u, v |-> v, t |-> t] :
     e \in 1..MaxId, u \in LabUnits(a), v \in LabVals(a), t \in LabTimes(sc, a)}

InitLab ==
  /\ script \in LabScripts
  /\ analyte \in Analytes(script)
  /\ lab \in SeqsUpTo(LabRows(script, analyte), MaxLab)
  /\ pc = "extract"
  /\ series = NoSeries
  /\ agg = NoAgg
  /\ MainIdle /\ StepIdle /\ PickIdle /\ FsIdle /\ StatIdle

\* one lab extractor on the rows of one analyte
Extract ==
  /\ pc = "extract"
  /\ series' = IF script = "eICU" THEN extract_one(analyte, lab)
               ELSE IF analyte = "Albumin" THEN extract_albumin(lab)
               ELSE extract_long(analyte, lab)
  /\ pc' = "extracted"
  /\ UNCHANGED <<script, analyte, lab, agg>>
  /\ UNCHANGED <<base, ids, t0_map, files, kvar, panel, failed, out>>
  /\ UNCHANGED <<stepVars, runVars, pickVars, fsVars, statVars>>

\* the cohort and the t0 of the panel run that reads the series
LabIds == [e \in 1..MaxId |-> e]
LabT0  == [e \in 1..MaxId |-> <<e, Num(0)>>]

\* _bin_one_variable of the MIMIC-IV panel script on the series written
BinSeries ==
  /\ pc = "extracted" /\ script = "mimic_IV"
  /\ agg' = _bin_one_variable(script, analyte, SeriesFile(analyte, series.out), LabIds, LabT0)
  /\ pc' = "binned"
  /\ UNCHANGED <<script, analyte, lab, series>>
  /\ UNCHANGED <<base, ids, t0_map, files, kvar, panel, failed, out>>
  /\ UNCHANGED <<stepVars, runVars, pickVars, fsVars, statVars>>

NextLab == Extract \/ BinSeries

SpecLab == InitLab /\ [][NextLab]_vars

\* ------------------------------------------------- column resolvers
\* (pick of the two four-analyte lab scripts, _guess_patient_col of the eICU
\* panel script)
\* df.columns = [c.lower() for c in df.columns]
Lowered(cols) == [i \in 1..Len(cols) |-> lower(cols[i])]

\* for name in candidates: for c in df.columns: if c.lower() == name.lower()
HeaderFirstBug(cols, cands, i) ==
  LET hits == {j \in 1..Len(cols) : \E k \in 1..Len(cands) : lower(cols[j]) = cands[k]}
  IN  IF hits # {} THEN cols[CHOOSE j \in hits : \A j2 \in hits : j <= j2] ELSE NoCol

RECURSIVE PickFrom(_, _, _)
PickFrom(cols, cands, i) ==
  IF i > Len(cands) THEN NoCol
  ELSE LET hits == {j \in 1..Len(cols) : lower(cols[j]) = cands[i]}
       IN  IF hits # {} THEN cols[CHOOSE j \in hits : \A j2 \in hits : j <= j2]
           ELSE PickFrom(cols, cands, i + 1)

Found(c) == [st |-> "ok", col |-> c, exc |-> "", names |-> <<>>, headers |-> <<>>]

KeyErrorWithHeadersBug(cands, cols) ==
  [st |-> "raise", col |-> NoCol, exc |-> "KeyError", names |-> cands, headers |-> cols]

\* KeyError(f"Missing required column. Tried: {', '.join(candidates)}") and
\* KeyError(f"Missing required column: {name}"): names and headers are the
\* candidate names and the header names that the message holds
KeyErrorTried(cands, cols) ==
  [st |-> "raise", col |-> NoCol, exc |-> "KeyError", names |-> cands, headers |-> <<>>]

\* pick(df, *candidates) of the eICU lab script, pick(df, name) of the
\* MIMIC-IV lab script (a single candidate)
pick(cols, cands) ==
  IF PickFrom(cols, cands, 1) # NoCol THEN Found(PickFrom(cols, cands, 1))
  ELSE KeyErrorTried(cands, cols)

\* ValueError("Patient ID column not found (e.g., patientunitstayid/subject_id).")
GuessError ==
  [st |-> "raise", col |-> NoCol, exc |-> "ValueError",
   names |-> <<"patientunitstayid", "subject_id">>, headers |-> <<>>]

\* _guess_patient_col of the eICU panel script, with its exception
GuessPatient(cols) ==
  IF _guess_patient_col("eICU", cols) # NoCol THEN Found(_guess_patient_col("eICU", cols))
  ELSE GuessError

\* the calls: col_pid, col_name and col_unit of the eICU lab script, col_subj
\* and col_valueuom of the MIMIC-IV lab script, the id column of a panel file
Calls ==
  {[fn |-> "pick", cands |-> c] :
     c \in {<<"patientunitstayid">>, <<"labname">>,
            <<"labmeasurenamesystem", "labmeasurename", "labunit", "labresultunit",
              "labresultunits", "units", "unit", "valueuom">>}} \cup
  {[fn |-> "pick_name", cands |-> c] : c \in {<<"subject_id">>, <<"valueuom">>}} \cup
  {[fn |-> "_guess_patient_col", cands |-> PatientKeys("eICU")]}

HeaderNames == {"PATIENTUNITSTAYID", "LabName", "labresult", "VALUEUOM", "hadm_id"}

InitPick ==
  /\ resolver \in Calls
  /\ header \in SeqsUpTo(HeaderNames, MaxHdr)
  /\ picked = NoPick
  /\ script = "eICU" /\ pc = "pick"
  /\ MainIdle /\ StepIdle /\ LabIdle /\ FsIdle /\ StatIdle

\* ValueError("Patient ID column not found (e.g., SUBJECT_ID/subject_id).")
GuessErrorIII ==
  [st |-> "raise", col |-> NoCol, exc |-> "ValueError",
   names |-> <<"SUBJECT_ID", "subject_id">>, headers |-> <<>>]

\* _guess_patient_col of the MIMIC-III panel script, with its exception
GuessPatientIII(cols) ==
  IF _guess_patient_col("mimic_III", cols) # NoCol
  THEN Found(_guess_patient_col("mimic_III", cols))
  ELSE GuessErrorIII

\* find_col of the chronic-disease script: None when no candidate is found
find_col(cols, candidates) ==
  IF FirstKey(cols, Lowered(candidates), 1) # NoCol
  THEN Found(FirstKey(cols, Lowered(candidates), 1))
  ELSE [st |-> "none", col |-> NoCol, exc |-> "", names |-> <<>>, headers |-> <<>>]

\* the outcome of call c of script sc on the header cols; the lab scripts
\* lower the header first
Resolved(c, sc, cols) ==
  CASE c.fn = "_guess_patient_col" ->
         IF sc = "mimic_III" THEN GuessPatientIII(cols) ELSE GuessPatient(cols)
    [] c.fn = "find_col" -> find_col(cols, c.cands)
    [] OTHER -> pick(Lowered(cols), c.cands)

\* one call of a column resolver
Pick ==
  /\ pc = "pick"
  /\ picked' = Resolved(resolver, script, header)
  /\ pc' = "picked"
  /\ UNCHANGED <<resolver, header>>
  /\ UNCHANGED <<script, base, ids, t0_map, files, kvar, panel, failed, out>>
  /\ UNCHANGED <<stepVars, runVars, labVars, fsVars, statVars>>

SpecPick == InitPick /\ [][Pick]_vars

\* headers that several candidates of one call match: the unit column of
\* the eICU lab script, the id column of a MIMIC-III panel file, the key
\* and the code column of the chronic-disease script
PriorityCalls ==
  {[fn |-> "pick",
    cands |-> <<"labmeasurenamesystem", "labmeasurename", "labunit", "labresultunit",
                "labresultunits", "units", "unit", "valueuom">>],
   [fn |-> "_guess_patient_col", cands |-> PatientKeys("mimic_III")],
   [fn |-> "find_col", cands |-> <<"subject_id", "SUBJECT_ID">>],
   [fn |-> "find_col",
    cands |-> <<"icd_code", "ICD_CODE", "icd9_code", "ICD9_CODE", "code", "diagnosis_code">>]}

PriorityNames ==
  {"SUBJECT_ID", "subject_id", "PATIENTUNITSTAYID", "Unit", "VALUEUOM", "ICD9_CODE",
   "code", "hadm_id"}

InitPriority ==
  /\ resolver \in PriorityCalls
  /\ header \in SeqsUpTo(PriorityNames, MaxHdr + 1)
  /\ picked = NoPick
  /\ script = (IF resolver.fn = "pick" THEN "eICU" ELSE "mimic_III")
  /\ pc = "pick"
  /\ MainIdle /\ StepIdle /\ LabIdle /\ FsIdle /\ StatIdle

SpecPriority == InitPriority /\ [][Pick]_vars

\* ------------------------------------------- chunked filters on disk
\* The scripts that read one table in chunks and append what they keep to
\* one output file at a fixed path: process_one_file of mimic_III.py, the
\* top-level loop of mimic_III_part2.py and mimic_IV_part2.py ("part2"),
\* and filter_one_file of "Extract patient data/eICU.py".  A file is
\* [st, s]: st is "file" or "missing", s its lines, a header line first.
\* Of a table the id column and ITEMID are modelled; flag stands for
\* header_written (process_one_file) and first_write (part2).
Tools == {"process_one_file", "part2", "filter_one_file"}

Hdr(names) == [hdr |-> names, id |-> 0, hadm |-> 0, item |-> 0]
Row3(i, h, k) == [hdr |-> <<>>, id |-> i, hadm |-> h, item |-> k]
Row(i, k)  == Row3(i, 0, k)
IsHdr(l)   == l.hdr # <<>>

Missing == [st |-> "missing", s |-> <<>>]
File(lines) == [st |-> "file", s |-> lines]

\* what an earlier, different run left at the output path
Stale == File(<<Hdr(<<"old_id", "old_value">>), Row(MaxId + 1, OTHER_ITEM)>>)

\* the baseline ids (sub_ids, subjects, id_set) and admissions (hadm_ids)
WantedIds == {1}
WantedHadms == {2}

upper(c) == CASE c = "subject_id" -> "SUBJECT_ID"
              [] c = "hadm_id" -> "HADM_ID"
              [] c = "patientunitstayid" -> "PATIENTUNITSTAYID"
              [] c = "PatientUnitStayID" -> "PATIENTUNITSTAYID"
              [] OTHER -> c

\* norm_colmap and the test on it; find_id_col; usecols of part2
HasIdCol(t, names) ==
  CASE t = "process_one_file" ->
         \E i \in 1..Len(names) : upper(names[i]) \in {"SUBJECT_ID", "HADM_ID"}
    [] t = "filter_one_file" ->
         \E i \in 1..Len(names) : upper(names[i]) = "PATIENTUNITSTAYID"
    [] OTHER ->
         \E i \in 1..Len(names) : names[i] = "SUBJECT_ID"

RemoveSkippedBug(f) == f
os_remove(f) == Missing

\* DataFrame.to_csv(path, mode="w") and DataFrame.to_csv(path, mode="a")
to_csv_w(f, lines) == File(lines)
to_csv_a(f, lines) == File(f.s \o lines)

RECURSIVE Chunked(_, _)
Chunked(rows, n) ==
  IF rows = <<>> THEN <<>>
  ELSE IF Len(rows) <= n THEN <<rows>>
  ELSE <<SubSeq(rows, 1, n)>> \o Chunked(SubSeq(rows, n + 1, Len(rows)), n)

\* pd.read_csv(path, chunksize=...): a table without data rows comes as
\* one chunk without rows
reader(f, n) == IF Len(f.s) = 1 THEN << <<>> >> ELSE Chunked(Tail(f.s), n)

RECURSIVE Matching(_, _)
Matching(rows, wantItem) ==
  IF rows = <<>> THEN <<>>
  ELSE LET r == Head(rows)
           keep == r.id \in WantedIds /\ (wantItem => r.item = ITEM_ID)
       IN  (IF keep THEN <<r>> ELSE <<>>) \o Matching(Tail(rows), wantItem)

\* "X" in colmap
InColmap(names, X) == \E i \in 1..Len(names) : upper(names[i]) = X

\* mask = mask | s, mask = mask | h
AndMaskBug(s, h) == s /\ h
OrMask(s, h) == s \/ h

\* chunk[mask] of process_one_file
RECURSIVE Masked(_, _)
Masked(rows, names) ==
  IF rows = <<>> THEN <<>>
  ELSE LET r == Head(rows)
           s == InColmap(names, "SUBJECT_ID") /\ r.id \in WantedIds
           h == InColmap(names, "HADM_ID") /\ r.hadm \in WantedHadms
       IN  (IF OrMask(s, h) THEN <<r>> ELSE <<>>) \o Masked(Tail(rows), names)

\* the columns part2 writes: the id column stays, ITEMID goes
OutHdr == Hdr(<<"SUBJECT_ID", "Weight">>)
Projected(rows) == [i \in 1..Len(rows) |-> Row(rows[i].id, 0)]

\* the run gets as far as its chunk loop
Opens(t, f) ==
  /\ f.st = "file"
  /\ t # "process_one_file" => HasIdCol(t, f.s[1].hdr)

\* one iteration of the loop of process_one_file
OneChunkIII(f, chunk, fl, tot) ==
  IF tot + Len(chunk) = 0 THEN [dst |-> f, flag |-> fl]
  ELSE LET d1 == IF ~fl THEN to_csv_w(f, <<Hdr(src.s[1].hdr)>>) ELSE f
           matched == Masked(chunk, src.s[1].hdr)
       IN  [dst  |-> IF HasIdCol("process_one_file", src.s[1].hdr) /\ matched # <<>>
                     THEN to_csv_a(d1, matched) ELSE d1,
            flag |-> TRUE]

\* one iteration of the loop of mimic_III_part2.py / mimic_IV_part2.py
OneChunkPart2(f, chunk, fl) ==
  LET kept == Matching(chunk, TRUE)
  IN  IF kept = <<>> THEN [dst |-> f, flag |-> fl]
      ELSE [dst  |-> to_csv_a(f, (IF fl THEN <<OutHdr>> ELSE <<>>) \o Projected(kept)),
            flag |-> FALSE]

\* one iteration of the loop of filter_one_file
OneChunkEICU(f, chunk, fl) ==
  LET hit == Matching(chunk, FALSE)
  IN  [dst |-> IF hit # <<>> THEN to_csv_a(f, hit) ELSE f, flag |-> fl]

OneChunk(t, f, chunk, fl, tot) ==
  CASE t = "process_one_file" -> OneChunkIII(f, chunk, fl, tot)
    [] t = "part2"            -> OneChunkPart2(f, chunk, fl)
    [] OTHER                  -> OneChunkEICU(f, chunk, fl)

InHeaders(t) ==
  CASE t = "process_one_file" ->
         {<<"SUBJECT_ID", "ITEMID">>, <<"subject_id", "ITEMID">>, <<"ROW_ID", "ITEMID">>}
    [] t = "filter_one_file" ->
         {<<"patientunitstayid", "ITEMID">>, <<"PatientUnitStayID", "ITEMID">>,
          <<"ROW_ID", "ITEMID">>}
    [] OTHER ->
         {<<"SUBJECT_ID", "ITEMID">>, <<"ROW_ID", "ITEMID">>}

InRows == {Row(i, k) : i \in 1..MaxId, k \in {ITEM_ID, OTHER_ITEM}}

InFiles(t) ==
  {Missing} \cup
  {File(<<Hdr(h)>> \o rows) : h \in InHeaders(t), rows \in SeqsUpTo(InRows, MaxRows)}

InitChunks ==
  /\ tool \in Tools
  /\ src \in InFiles(tool)
  /\ dst \in {Missing, Stale}
  /\ chunks = <<>> /\ flag = FALSE /\ total = 0 /\ once = NoResult
  /\ chunksize = ChunkSize
  /\ script = (IF tool = "filter_one_file" THEN "eICU" ELSE "mimic_III")
  /\ pc = "start"
  /\ MainIdle /\ StepIdle /\ LabIdle /\ PickIdle /\ StatIdle

\* the code before the chunk loop
Open ==
  /\ pc = "start"
  /\ total' = 0
  /\ flag' = (tool = "part2")
  /\ dst' = CASE tool = "part2" -> IF dst.st = "file" THEN os_remove(dst) ELSE dst
              [] tool = "filter_one_file" /\ Opens(tool, src) ->
                   to_csv_w(dst, <<Hdr(src.s[1].hdr)>>)
              [] OTHER -> dst
  /\ IF Opens(tool, src)
       THEN chunks' = reader(src, chunksize) /\ pc' = "loop"
       ELSE chunks' = <<>> /\ pc' = "done"
  /\ UNCHANGED <<tool, src, chunksize, once>>
  /\ UNCHANGED <<script, base, ids, t0_map, files, kvar, panel, failed, out>>
  /\ UNCHANGED <<stepVars, runVars, labVars, pickVars, statVars>>

\* one iteration of the chunk loop; the run ends after the last chunk
ReadChunk ==
  /\ pc = "loop"
  /\ chunks # <<>>
  /\ LET r == OneChunk(tool, dst, Head(chunks), flag, total)
     IN  dst' = r.dst /\ flag' = r.flag
  /\ total' = total + Len(Head(chunks))
  /\ chunks' = Tail(chunks)
  /\ pc' = IF Tail(chunks) = <<>> THEN "done" ELSE "loop"
  /\ UNCHANGED <<tool, src, chunksize, once>>
  /\ UNCHANGED <<script, base, ids, t0_map, files, kvar, panel, failed, out>>
  /\ UNCHANGED <<stepVars, runVars, labVars, pickVars, statVars>>

\* the same command once more, on the same input and the same output path
Again ==
  /\ pc = "done"
  /\ run = 1
  /\ run' = 2
  /\ once' = dst
  /\ pc' = "start"
  /\ flag' = FALSE /\ total' = 0
  /\ UNCHANGED <<tool, src, dst, chunks, chunksize>>
  /\ UNCHANGED <<script, base, ids, t0_map, files, kvar, panel, failed, out>>
  /\ UNCHANGED <<stepVars, feed, prev, labVars, pickVars, statVars>>

NextChunks == Open \/ ReadChunk \/ Again

SpecChunks == InitChunks /\ [][NextChunks]_vars

\* ------------------------------ process_one_file over both id columns
OrHeaders ==
  {<<"SUBJECT_ID", "HADM_ID", "ITEMID">>, <<"subject_id", "hadm_id", "ITEMID">>,
   <<"SUBJECT_ID", "ITEMID">>, <<"HADM_ID", "ITEMID">>, <<"ROW_ID", "ITEMID">>}

OrRows == {Row3(i, h, ITEM_ID) : i \in 1..MaxId, h \in 1..MaxId}

InitOrFilter ==
  /\ tool = "process_one_file"
  /\ src \in {File(<<Hdr(h)>> \o rows) : h \in OrHeaders, rows \in SeqsUpTo(OrRows, MaxRows)}
  /\ dst \in {Missing, Stale}
  /\ chunks = <<>> /\ flag = FALSE /\ total = 0 /\ once = NoResult
  /\ chunksize \in 1..MaxRows
  /\ script = "mimic_III"
  /\ pc = "start"
  /\ MainIdle /\ StepIdle /\ LabIdle /\ PickIdle /\ StatIdle

SpecOrFilter == InitOrFilter /\ [][NextChunks]_vars

\* --------------------------------------- the static subject-level merge
\* "Aggregate static data/mimic_III.py": the first ICU stay per subject,
\* then every other source restricted to that cohort, reduced to one row
\* per subject and left-joined.  Of a source one value column is modelled.
NA_ID == "<NA>"

\* s.astype("string").str.strip().str.replace(r"\.0$", "")
normalize_id(s) ==
  CASE s = "1.0" -> "1"
    [] s = " 2"  -> "2"
    [] s = "2.0" -> "2"
    [] OTHER     -> s

\* the order of sort_values and of groupby on the id strings, missing last
IdRank(s) == CASE s = "1" -> 1 [] s = "2" -> 2 [] OTHER -> 3

\* ascending by SUBJECT_ID, then by INTIME with NaT last
IcuLess(a, b) ==
  \/ IdRank(a.id) < IdRank(b.id)
  \/ /\ a.id = b.id
     /\ ~IsNaN(a.t)
     /\ (IsNaN(b.t) \/ RLt(a.t, b.t))

RECURSIVE IcuInsert(_, _)
IcuInsert(r, s) ==
  IF s = <<>> THEN <<r>>
  ELSE IF IcuLess(Head(s), r) THEN <<Head(s)>> \o IcuInsert(r, Tail(s))
  ELSE <<r>> \o s

RECURSIVE IcuSorted(_)
IcuSorted(s) ==
  IF s = <<>> THEN <<>> ELSE IcuInsert(Head(s), IcuSorted(Tail(s)))

\* drop_duplicates(subset=["SUBJECT_ID"], keep=...)
KeepLastBug(s) ==
  SelectSeq([i \in 1..Len(s) |-> [r |-> s[i], keep |-> \A j \in (i + 1)..Len(s) : s[j].id # s[i].id]],
            LAMBDA x : x.keep)
KeepFirst(s) ==
  SelectSeq([i \in 1..Len(s) |-> [r |-> s[i], keep |-> \A j \in 1..(i - 1) : s[j].id # s[i].id]],
            LAMBDA x : x.keep)

Unwrapped(s) == [i \in 1..Len(s) |-> s[i].r]

first_icu_per_subject(tab) ==
  LET parsed == [i \in 1..Len(tab) |->
                   [id |-> normalize_id(tab[i].id), t |-> to_datetime(tab[i].t)]]
  IN  Unwrapped(KeepFirst(IcuSorted(parsed)))

\* read_with_subject, over the modelled columns
read_with_subject(tab) ==
  [i \in 1..Len(tab) |-> [id |-> normalize_id(tab[i].id), v |-> tab[i].v]]

\* df[df["SUBJECT_ID"].isin(cohort)]
InCohort(df, cohort) == SelectSeq(df, LAMBDA r : r.id \in cohort)

\* pd.api.types.is_numeric_dtype of the value column
NumericCol(df) == \A i \in 1..Len(df) : df[i].v.k # "str"

Binary01 == {NumCell(0, 1), NumCell(1, 1)}

\* is_binary_01 of the series s, whose dtype is that of its frame
is_binary_01(s, numeric) ==
  LET vals == {s[i] : i \in {j \in 1..Len(s) : s[j].k # "bad"}}
  IN  numeric /\ vals # {} /\ vals \subseteq Binary01

\* s.max() of a 0/1 series
MaxOf(s) == IF \E i \in 1..Len(s) : s[i] = NumCell(1, 1) THEN NumCell(1, 1) ELSE NumCell(0, 1)

\* s.dropna().iloc[0] if s.notna().any() else np.nan
FirstNonNull(s) ==
  LET ok == {i \in 1..Len(s) : s[i].k # "bad"}
  IN  IF ok = {} THEN BadCell ELSE s[CHOOSE i \in ok : \A j \in ok : i <= j]

\* _agg_group on the rows of one subject
_agg_group(g, numeric) ==
  LET s == [i \in 1..Len(g) |-> g[i].v]
  IN  IF is_binary_01(s, numeric) THEN MaxOf(s) ELSE FirstNonNull(s)

GroupKeys == <<"1", "2", NA_ID>>

\* dedupe_by_subject: one row per group of groupby("SUBJECT_ID", dropna=False)
dedupe_by_subject(df) ==
  LET present == SelectSeq(GroupKeys, LAMBDA k : \E i \in 1..Len(df) : df[i].id = k)
  IN  [n \in 1..Len(present) |->
         [id |-> present[n],
          v  |-> _agg_group(SelectSeq(df, LAMBDA r : r.id = present[n]), NumericCol(df))]]

\* pd.merge(l, r, on="SUBJECT_ID", how="left"), the value of r appended
RECURSIVE MergeStatic(_, _)
MergeStatic(l, r) ==
  IF l = <<>> THEN <<>>
  ELSE LET x == Head(l)
           hits == SelectSeq(r, LAMBDA y : y.id = x.id)
           rows == IF hits = <<>> THEN <<[x EXCEPT !.vs = Append(@, BadCell)]>>
                   ELSE [i \in 1..Len(hits) |-> [x EXCEPT !.vs = Append(@, hits[i].v)]]
       IN  rows \o MergeStatic(Tail(l), r)

IcuTimes == {TsCell(1), TsCell(2), BadCell}
IcuRows(S, T) == {[id |-> i, t |-> x] : i \in S, x \in T}

SrcVals == {NumCell(0, 1), NumCell(1, 1), NumCell(5, 1), BadCell}
SrcRows == {[id |-> i, v |-> v] : i \in {"1", "1.0", " 2"}, v \in SrcVals}

\* a source with text in its value column, with a subject outside most
\* cohorts and with a missing subject id
TextSource == <<[id |-> "1", v |-> [k |-> "str", n |-> 0, d |-> 1]],
                [id |-> "1", v |-> [k |-> "str", n |-> 1, d |-> 1]],
                [id |-> NA_ID, v |-> NumCell(1, 1)]>>
FlagSource == <<[id |-> "2.0", v |-> NumCell(0, 1)], [id |-> "2", v |-> NumCell(1, 1)]>>

InitFirstIcu ==
  /\ icu \in SeqsUpTo(IcuRows({"1", "1.0", " 2", NA_ID}, IcuTimes), MaxIcu)
  /\ sources = <<FlagSource>>
  /\ first_icu = NoResult /\ deduped = <<>> /\ merged = NoMerged
  /\ script = "mimic_III" /\ pc = "start"
  /\ MainIdle /\ StepIdle /\ LabIdle /\ PickIdle /\ FsIdle

InitStatic ==
  /\ icu \in SeqsUpTo(IcuRows({"1", " 2", NA_ID}, {TsCell(1)}), MaxIcu - 1)
  /\ sources \in {<<a, b>> : a \in SeqsUpTo(SrcRows, MaxSrcRows),
                             b \in {<<>>, TextSource, FlagSource}}
  /\ first_icu = NoResult /\ deduped = <<>> /\ merged = NoMerged
  /\ script = "mimic_III" /\ pc = "start"
  /\ MainIdle /\ StepIdle /\ LabIdle /\ PickIdle /\ FsIdle

Cohorted(f) == {f[i].id : i \in 1..Len(f)}

\* step 1: first_icu and the cohort
FirstIcu ==
  /\ pc = "start"
  /\ first_icu' = [st |-> "ok", s |-> first_icu_per_subject(icu)]
  /\ pc' = "load"
  /\ UNCHANGED <<icu, sources, deduped, merged>>
  /\ UNCHANGED <<script, base, ids, t0_map, files, kvar, panel, failed, out>>
  /\ UNCHANGED <<stepVars, runVars, labVars, pickVars, fsVars>>

\* step 2, for the next source: read, restrict to the cohort, dedupe
LoadSource ==
  /\ pc = "load"
  /\ LET k == Len(deduped) + 1
         df == InCohort(read_with_subject(sources[k]), Cohorted(first_icu.s))
     IN  /\ deduped' = Append(deduped, dedupe_by_subject(df))
         /\ pc' = IF k = Len(sources) THEN "merge" ELSE "load"
  /\ merged' = IF Len(deduped) + 1 = Len(sources)
               THEN [k |-> 0, rows |-> [i \in 1..Len(first_icu.s) |->
                                          [id |-> first_icu.s[i].id, t |-> first_icu.s[i].t, vs |-> <<>>]]]
               ELSE merged
  /\ UNCHANGED <<icu, first_icu, sources>>
  /\ UNCHANGED <<script, base, ids, t0_map, files, kvar, panel, failed, out>>
  /\ UNCHANGED <<stepVars, runVars, labVars, pickVars, fsVars>>

\* step 3: one merge of the reduce; steps 4 to 6 follow the last one and
\* touch no modelled column
MergeStep ==
  /\ pc = "merge"
  /\ merged' = [k |-> merged.k + 1, rows |-> MergeStatic(merged.rows, deduped[merged.k + 1])]
  /\ pc' = IF merged.k + 1 = Len(deduped) THEN "done" ELSE "merge"
  /\ UNCHANGED <<icu, first_icu, sources, deduped>>
  /\ UNCHANGED <<script, base, ids, t0_map, files, kvar, panel, failed, out>>
  /\ UNCHANGED <<stepVars, runVars, labVars, pickVars, fsVars>>

NextStatic == FirstIcu \/ LoadSource \/ MergeStep

SpecFirstIcu == InitFirstIcu /\ [][NextStatic]_vars
SpecStatic   == InitStatic /\ [][NextStatic]_vars

\* ================================================================ claims

\* C5. Symmetric binning: h and -h get the same result of
\* _assign_bin_end_hours_abs (the same endpoint, or both no bin), and a
\* magnitude of 11.0 gets endpoint 12 whatever the sign.
C5_Symmetric ==
  pc = "assigned" =>
    /\ hout = _assign_bin_end_hours_abs(RNeg(hin))
    /\ (~IsNaN(hin) /\ REq(RAbs(hin), Num(11)) => hout = Num(12))

C5_Witness ==
  pc = "assigned" /\ hin = Rat(-22, 2) /\ hout = Num(12)

\* the row of df that _bin_one_variable builds from a record at hours hin
BinnedRow == [id |-> 1, hours |-> hin, rel |-> hout, val |-> One]

\* C6. Window exclusion: with a = |h|, no bin whenever a < 8 or a >= 720, and
\* the record's row is dropped before the aggregation; 719.999 gets endpoint
\* 720 and exactly 720.0 gets no bin.
C6_WindowExclusion ==
  pc = "assigned" /\ ~IsNaN(hin) =>
    /\ (RLt(RAbs(hin), Num(8)) \/ RLe(Num(720), RAbs(hin))
          => IsNaN(hout) /\ KeepInWindow(<<BinnedRow>>) = <<>>)
    /\ (REq(RAbs(hin), Rat(719999, 1000)) => hout = Num(720))
    /\ (REq(RAbs(hin), Num(720)) => IsNaN(hout))

C6_Witness ==
  pc = "assigned" /\ hin = Rat(719999, 1000) /\ hout = Num(720)

\* C7 as claimed: a relative hour of exactly 8.0 or -8.0 is assigned no bin,
\* and its row is dropped before the aggregation.
C7_Original ==
  pc = "assigned" /\ ~IsNaN(hin) /\ REq(RAbs(hin), Num(8)) =>
    IsNaN(hout) /\ KeepInWindow(<<BinnedRow>>) = <<>>

\* C7 as amended: a relative hour of exactly 8.0 or -8.0 is inside the
\* window (the mask is a >= 8): its index ceil(0) = 0 is clamped to 1 and it is
\* assigned endpoint 10, and its row is kept for the aggregation.
C7_StartIncluded ==
  pc = "assigned" /\ ~IsNaN(hin) /\ REq(RAbs(hin), Num(8)) =>
    hout = Num(10) /\ KeepInWindow(<<BinnedRow>>) = <<BinnedRow>>

C7_Witness ==
  pc = "assigned" /\ hin = Rat(-16, 2) /\ hout = Num(10)

\* C8. For 8 < a < 720 the endpoint is e = 8 + ceil((a - 8) / 2) * 2: a point
\* of the grid 10, 12, ..., 720 with e - 2 < a <= e (bins of width 2, closed
\* on the right), so a = 10.0 belongs to the bin ending at 10.
C8_RightClosed ==
  pc = "assigned" /\ ~IsNaN(hin)
    /\ RLt(Num(8), RAbs(hin)) /\ RLt(RAbs(hin), Num(720)) =>
      /\ ~IsNaN(hout)
      /\ hout.d = 1
      /\ hout.n \in {10 + 2 * k : k \in 0..355}
      /\ RLt(Num(hout.n - 2), RAbs(hin))
      /\ RLe(RAbs(hin), Num(hout.n))

C8_Witness ==
  pc = "assigned" /\ hin = Rat(20, 2) /\ hout = Num(10)

\* the non-null values of the time column under study, and their median
C10_Nums == NonNull([i \in 1..Len(sin) |-> to_numeric(sin[i])])
C10_Minutes == RLt(Num(500), RAbs(nanmedian(C10_Nums)))
C10_Expected ==
  [i \in 1..Len(sin) |->
     IF C10_Minutes /\ sin[i].k = "num" THEN Rat(sin[i].n, sin[i].d * 60)
     ELSE to_numeric(sin[i])]
C10_Named(nm) ==
  nm \in {"labresultoffset", "albumin_charttime", "hours", "hour"}

\* C10 as claimed: in every script a time column named *offset*, *_charttime,
\* hours or hour is divided by 60 when |median| > 500 and used unchanged
\* otherwise.
C10_Original ==
  pc = "resolved" /\ C10_Named(tname) /\ C10_Nums # <<>> =>
    sout.st = "ok" /\ sout.s = C10_Expected

\* C10 as amended: that holds for the names containing "offset" or ending
\* with "_charttime" in the three scripts and for hours / hour in the MIMIC-III
\* and MIMIC-IV scripts; the eICU script uses a column named hours or hour
\* unchanged whatever its median.
C10_OffsetBranch ==
  pc = "resolved" /\ C10_Named(tname) /\ C10_Nums # <<>> =>
    /\ sout.st = "ok"
    /\ (script = "eICU" /\ tname \in {"hours", "hour"}
          => sout.s = [i \in 1..Len(sin) |-> to_numeric(sin[i])])
    /\ (~(script = "eICU" /\ tname \in {"hours", "hour"}) => sout.s = C10_Expected)

C10_Witness ==
  /\ pc = "resolved" /\ script = "mimic_IV" /\ tname = "hours"
  /\ sin = <<NumCell(500, 1), NumCell(501, 1)>>
  /\ sout.st = "ok" /\ sout.s = <<Rat(500, 60), Rat(501, 60)>>

\* ------------------------------------------- claims about the panel run
\* the distinct valid ids of the base identifier file
Cohort ==
  {base.rows[i][base.cols[1]].n :
     i \in {j \in 1..Len(base.rows) : base.rows[j][base.cols[1]].k = "num"}}

\* the bin endpoints 10, 12, ..., 720
GridSet == {10 + 2 * k : k \in 0..355}

Running == pc \in {"loop", "sort", "done"}

\* the records of analyte file f: id, resolved hours, endpoint, value. The
\* analyte files of Spec hold a plain hour column, which the resolver uses
\* unchanged
HasRecs(f)   == f.exists /\ Len(f.cols) = 3
RecId(f, i)  == to_numeric(f.rows[i][f.cols[1]])
RecHrs(f, i) == to_numeric(f.rows[i][f.cols[2]])
RecVal(f, i) == to_numeric(f.rows[i][f.cols[3]])
RecBin(f, i) == _assign_bin_end_hours_abs(RecHrs(f, i))
\* record i of f is a record of a cohort entity inside the window
Qualifies(f, i) ==
  /\ HasRecs(f)
  /\ ~IsNaN(RecId(f, i)) /\ RecId(f, i).n \in Cohort
  /\ ~IsNaN(RecBin(f, i))

\* the rows of frame df for entity e and endpoint b
RowsAt(df, e, b) == {p \in 1..Len(df.rows) : df.rows[p][1] = e /\ df.rows[p][2] = b}

\* one row per pair (cohort id, endpoint)
C1_Dense(df) ==
  /\ Len(df.rows) = Cardinality(Cohort) * 356
  /\ {<<df.rows[p][1], df.rows[p][2]>> : p \in 1..Len(df.rows)} = Cohort \X GridSet

\* C1. The panel holds exactly one row for every pair (distinct cohort id,
\* endpoint in 10, 12, ..., 720), after the skeleton is built and after every
\* merge, and so does the exported file: (number of cohort ids) x 356 rows.
C1_OneRowPerPair ==
  /\ Running => C1_Dense(panel)
  /\ pc = "done" => C1_Dense(out)

C1_Witness ==
  /\ pc = "done" /\ Cardinality(Cohort) = 2 /\ Len(out.rows) = 712
  /\ \E k \in 1..Len(files) :
       /\ Len(files[k].rows) = 2
       /\ Qualifies(files[k], 1) /\ Qualifies(files[k], 2)
       /\ RecId(files[k], 1) = RecId(files[k], 2)
       /\ RecBin(files[k], 1) = RecBin(files[k], 2)

C3_ObservedWithNull ==
  Running =>
    \A k \in 1..Len(files) : \A i \in 1..Len(files[k].rows) :
      Qualifies(files[k], i) =>
        LET at == RowsAt(panel, RecId(files[k], i).n, RecBin(files[k], i).n)
        IN  /\ at # {}
            /\ \A p \in at : panel.rows[p][Col(panel, ObsCol(VARS[k]))] = One

C3_Witness ==
  /\ pc = "done"
  /\ \E k \in 1..Len(files) : \E p \in 1..Len(out.rows) :
       /\ out.rows[p][Col(out, ObsCol(VARS[k]))] = One
       /\ IsNaN(out.rows[p][Col(out, VARS[k])])

\* the extraction of analyte file f fails: the file is absent, a column
\* cannot be resolved, or no time parses as a number or as a timestamp
InputFails(f) ==
  \/ ~f.exists
  \/ Len(f.cols) < 3
  \/ Len(f.rows) > 0 /\ \A i \in 1..Len(f.rows) : f.rows[i][f.cols[2]].k = "bad"

AllMissing(df, var) ==
  /\ var \in Range(df.cols) /\ ObsCol(var) \in Range(df.cols)
  /\ LET oc == Col(df, ObsCol(var))
         vc == Col(df, var)
     IN  \A p \in 1..Len(df.rows) : df.rows[p][oc] = Zero /\ IsNaN(df.rows[p][vc])

\* C4. The failure of one analyte's extraction never ends the run: that
\* analyte's value and _obs columns are in the panel with _obs = 0 and a null
\* value in every row, the other analytes are processed, and the panel is
\* exported with the columns of the five analytes.
C4_FailureIsolated ==
  /\ pc # "aborted"
  /\ Running => \A k \in 1..Len(files) : InputFails(files[k]) => AllMissing(panel, VARS[k])
  /\ pc = "done" =>
       /\ Len(files) = 5
       /\ out = panel
       /\ Len(out.cols) = 12
       /\ \A k \in 1..5 : VARS[k] \in Range(out.cols) /\ ObsCol(VARS[k]) \in Range(out.cols)

C4_Witness ==
  /\ pc = "done"
  /\ \E k1, k2 \in 1..Len(files) :
       /\ k1 < k2
       /\ InputFails(files[k1]) /\ AllMissing(out, VARS[k1])
       /\ Len(files[k2].rows) > 0 /\ Qualifies(files[k2], 1)
       /\ \E p \in 1..Len(out.rows) : out.rows[p][Col(out, ObsCol(VARS[k2]))] = One

\* every value and every observed flag of frame df comes from a record of
\* the entity of its row
C9_FromCohort(df) ==
  /\ {df.rows[p][1] : p \in 1..Len(df.rows)} = Cohort
  /\ \A k \in 1..Len(files) :
       LET f    == files[k]
           oc   == Col(df, ObsCol(VARS[k]))
           vc   == Col(df, VARS[k])
           recs == {<<RecId(f, i).n, RecBin(f, i).n>> :
                      i \in {j \in 1..Len(f.rows) : Qualifies(f, j)}}
       IN  \A p \in 1..Len(df.rows) :
             (df.rows[p][oc] = One \/ ~IsNaN(df.rows[p][vc]))
               => <<df.rows[p][1], df.rows[p][2]>> \in recs

AnchorT0(e) ==
  LET at == {j \in 1..Len(base.rows) : base.rows[j][base.cols[1]] = NumCell(e, 1)}
  IN  IF at = {} THEN NaN
      ELSE to_datetime(base.rows[CHOOSE j \in at : \A j2 \in at : j <= j2][base.cols[2]])

\* (timestamp - t0[entity]) in hours of record i of f, null when either is null
AnchorHrs(f, i) ==
  LET ts == to_datetime(f.rows[i][f.cols[2]])
      t0 == AnchorT0(RecId(f, i).n)
  IN  IF IsNaN(ts) \/ IsNaN(t0) THEN NaN ELSE Rat(ts.n - t0.n, MIN_PER_H)

\* the cells of analyte k that a record of f reaches through its anchor
AnchorCells(f) ==
  {<<RecId(f, i).n, _assign_bin_end_hours_abs(AnchorHrs(f, i)).n>> :
     i \in {j \in 1..Len(f.rows) :
              /\ RecId(f, j).n \in Cohort
              /\ ~IsNaN(_assign_bin_end_hours_abs(AnchorHrs(f, j)))}}

ObservedCells(df, var) ==
  {<<df.rows[p][1], df.rows[p][2]>> :
     p \in {q \in 1..Len(df.rows) : df.rows[q][Col(df, ObsCol(var))] = One}}

\* C11. Anchor conversion: over analyte files of absolute timestamps the
\* relative hours of a record are (timestamp - t0[entity]) in hours; a record
\* whose entity has no parseable t0 or whose timestamp does not parse has null
\* hours and is dropped at binning, alone: the analyte is not aborted and the
\* observed cells are exactly those reached by the other records.
C11_Original ==
  (Running /\ feed = "stamps") =>
    \A k \in 1..Len(files) :
      HasRecs(files[k]) =>
        /\ VARS[k] \notin failed
        /\ ObservedCells(panel, VARS[k]) = AnchorCells(files[k])

\* a base file that repeats an id, an analyte file whose record parses and
\* has a parseable t0, and the analyte replaced by the all-missing placeholder
C11_Witness ==
  /\ Running /\ feed = "stamps"
  /\ ~UniqueIndex(t0_map)
  /\ \E k \in 1..Len(files) :
       /\ HasRecs(files[k]) /\ AnchorCells(files[k]) # {}
       /\ VARS[k] \in failed
       /\ AllMissing(panel, VARS[k])

\* ------------------------------------------ claims about a repeated run
\* the rows of df are in strictly increasing order of (entity id, endpoint)
StrictlyOrdered(df) ==
  \A p \in 1..(Len(df.rows) - 1) :
    \/ df.rows[p][1] < df.rows[p + 1][1]
    \/ df.rows[p][1] = df.rows[p + 1][1] /\ df.rows[p][2] < df.rows[p + 1][2]

\* C12. Idempotence: the exported rows are in increasing order of (entity id,
\* bin endpoint) with no pair repeated, and a second run of the panel assembly
\* on unchanged inputs leaves an output identical to that of the first run.
C12_Idempotent ==
  pc = "done" =>
    /\ StrictlyOrdered(out)
    /\ run = 2 => out = prev

\* a second run ends, over a base file that lists entity 2 before entity 1
\* and an analyte file with an observed record
C12_Witness ==
  /\ pc = "done" /\ run = 2
  /\ ids = <<2, 1>>
  /\ Len(out.rows) = 712
  /\ \E k \in 1..Len(files) : \E p \in 1..Len(out.rows) :
       out.rows[p][Col(out, ObsCol(VARS[k]))] = One

\* ------------------------------------- claims about the lab extractors
\* the rows of the lab table whose value the cleaning rules set to null
RangeNulled ==
  {series.kept[i].src :
     i \in {j \in 1..Len(series.kept) :
              ~IsNaN(series.kept[j].v) /\ IsNaN(series.cleaned[j].v)}}

\* the bin of row i of the series written, t0 being the epoch
SeriesBin(i) == _assign_bin_end_hours_abs(Rat(series.out[i].t.n, MIN_PER_H))

\* row i of the series written is the last record of its (entity, bin) cell:
\* the latest, and among equally late ones the last written
LastOfCell(i) ==
  /\ ~IsNaN(series.out[i].t) /\ ~IsNaN(SeriesBin(i))
  /\ \A j \in 1..Len(series.out) :
       (/\ j # i /\ series.out[j].id = series.out[i].id
        /\ ~IsNaN(series.out[j].t) /\ SeriesBin(j) = SeriesBin(i))
         => \/ series.out[j].t.n < series.out[i].t.n
            \/ series.out[j].t.n = series.out[i].t.n /\ j < i

\* the rows of the aggregate for the cell of row i of the series
AggAt(i) ==
  {p \in 1..Len(agg.agg.rows) :
     /\ agg.agg.rows[p][1] = series.out[i].id
     /\ agg.agg.rows[p][2] = SeriesBin(i).n}

\* row i of the series is the record retained for its cell
RetainedAt(i) ==
  LastOfCell(i) /\ \E p \in AggAt(i) : agg.agg.rows[p][3] = series.out[i].v

\* C13 as stated. A row whose value the Range Cleaner sets to null stays in
\* the analyte's series, and a has-value filter removes it before binning:
\* it is never the record retained for an (entity, bin) cell, for every
\* analyte, albumin included.
C13_Original ==
  pc = "binned" =>
    /\ \A x \in RangeNulled : \E i \in 1..Len(series.out) : series.out[i].src = x
    /\ \A i \in 1..Len(series.out) : series.out[i].src \in RangeNulled => ~RetainedAt(i)

\* C13. For creatinine, sodium, potassium and hemoglobin the extractor itself
\* drops a row whose value the Range Cleaner set to null: it is not in the
\* series and every cell of the aggregate has a value. For albumin the row
\* stays in the series with a null value, the binner has no has-value filter,
\* and when it is the last record of its cell it is the record retained: the
\* cell is observed with a null value.
C13_DroppedAtExtraction ==
  pc = "binned" =>
    /\ agg.st = "ok"
    /\ IF analyte = "Albumin"
       THEN /\ \A x \in RangeNulled :
                 \E i \in 1..Len(series.out) :
                   series.out[i].src = x /\ IsNaN(series.out[i].v)
            /\ \A i \in 1..Len(series.out) :
                 (series.out[i].src \in RangeNulled /\ LastOfCell(i)) =>
                   /\ AggAt(i) # {}
                   /\ \A p \in AggAt(i) :
                        IsNaN(agg.agg.rows[p][3]) /\ agg.agg.rows[p][4] = One
       ELSE /\ \A i \in 1..Len(series.out) : series.out[i].src \notin RangeNulled
            /\ \A p \in 1..Len(agg.agg.rows) : ~IsNaN(agg.agg.rows[p][3])

\* an albumin table with 5.0 g/dL at 10.5 h and 5.1 g/dL at 11 h for one
\* entity: the second value is out of range, and the cell ending at 12 is
\* observed with a null value
C13_Witness ==
  /\ pc = "binned" /\ analyte = "Albumin" /\ Len(series.out) = 2
  /\ series.out[1].id = series.out[2].id
  /\ series.out[1].t = Num(630) /\ series.out[2].t = Num(660)
  /\ series.kept[1].v = Rat(5, 1) /\ series.kept[2].v = Rat(51, 10)
  /\ ~IsNaN(series.out[1].v) /\ IsNaN(series.out[2].v)
  /\ RangeNulled = {2}
  /\ RetainedAt(2)
  /\ \E p \in AggAt(2) : agg.agg.rows[p][2] = 12 /\ agg.agg.rows[p][4] = One

Extracted == pc \in {"extracted", "binned"}

\* C14. Range Cleaner: a value is set to null by the range rule iff it is
\* strictly below lo or strictly above hi of the analyte's range, so lo and hi
\* themselves are kept; before that rule, values <= 0 are set to null for
\* creatinine, potassium and hemoglobin, and for no other analyte.
C14_RangeCleaner ==
  Extracted =>
    /\ Len(series.pos) = Len(series.kept) /\ Len(series.cleaned) = Len(series.kept)
    /\ \A i \in 1..Len(series.kept) :
         LET x  == series.kept[i].v
             y  == series.pos[i].v
             z  == series.cleaned[i].v
             lo == RANGE(analyte).lo
             hi == RANGE(analyte).hi
         IN  /\ IsNaN(x) => IsNaN(y)
             /\ ~IsNaN(x) =>
                  IF analyte \in {"Creatinine", "Potassium", "Hemoglobin"} /\ x.n <= 0
                  THEN IsNaN(y) ELSE y = x
             /\ IsNaN(y) => IsNaN(z)
             /\ ~IsNaN(y) =>
                  IF y.n * lo.d < lo.n * y.d \/ y.n * hi.d > hi.n * y.d
                  THEN IsNaN(z) ELSE z = y

\* sodium 0 mmol/L passes the non-positive rule and falls to the range rule,
\* next to a value equal to lo = 110 that is kept
C14_Witness ==
  /\ Extracted /\ analyte = "Sodium" /\ Len(series.kept) = 2
  /\ series.kept[1].v = Rat(0, 1) /\ series.pos[1].v = Rat(0, 1) /\ IsNaN(series.cleaned[1].v)
  /\ series.kept[2].v = Rat(110, 1) /\ series.cleaned[2].v = Rat(110, 1)

\* the unit label of a lab row after string normalization and conversion
NormalUnit(sc, a, u) ==
  IF sc = "eICU" THEN convert_units(a, Zero, StripLower(u)).u
  ELSE IF a \in {"Sodium", "Potassium"} /\ StripLower(u) = "meq/l" THEN "mmol/l"
  ELSE StripLower(u)

\* the rows of stage d come from the rows of the lab table in S
FromRows(d, S) == \A i \in 1..Len(d) : d[i].src \in S

\* C15. Unit filter of the four-analyte extractors: a row whose unit label,
\* normalized and converted, is not the analyte's canonical unit is in no stage
\* of the series, with or without a value; a row in the canonical unit with a
\* value in range and a time is in the series; every row written carries the
\* canonical unit label. The extraction ends without an error.
C15_UnitFilter ==
  (Extracted /\ analyte # "Albumin") =>
    LET canon == {i \in 1..Len(lab) :
                    NormalUnit(script, analyte, lab[i].u) = StripLower(OUT_UNIT(analyte))}
    IN  /\ {series.kept[i].src : i \in 1..Len(series.kept)} = canon
        /\ FromRows(series.pos, canon) /\ FromRows(series.cleaned, canon)
        /\ FromRows(series.out, canon)
        /\ \A i \in 1..Len(series.out) : series.out[i].u = OUT_UNIT(analyte)
        /\ \A i \in 1..Len(series.kept) :
             ~IsNaN(series.cleaned[i].v) /\ ~IsNaN(series.cleaned[i].t) /\ script # "eICU"
               => \E j \in 1..Len(series.out) : series.out[j].src = series.kept[i].src

\* creatinine in mmol/L next to creatinine in mg/dL, both with a value in
\* range and a time: one row is written
C15_Witness ==
  /\ Extracted /\ analyte = "Creatinine" /\ Len(lab) = 2
  /\ lab[1].u = "mmol/L" /\ lab[2].u = "mg/dL"
  /\ lab[1].v = NumCell(1, 10) /\ lab[2].v = NumCell(1, 10)
  /\ lab[1].t.k # "bad" /\ lab[2].t.k # "bad"
  /\ Len(series.out) = 1 /\ series.out[1].src = 2 /\ series.out[1].u = "mg/dL"

\* C16. Creatinine conversion of the eICU extractor: a value in umol/L, the
\* micro written as u, as the micro sign or as the Greek mu, is divided by
\* 88.4; a value in mg/L is divided by 10; a value in mg/dL is unchanged; the
\* three are labelled mg/dL. 884 umol/L and 100 mg/L both become 10.0 mg/dL.
C16_CreatinineUnits ==
  (Extracted /\ script = "eICU" /\ analyte = "Creatinine") =>
    /\ \A i \in 1..Len(lab) :
         lab[i].u \in {"mg/dL", " MG/L ", "umol/L", "<U+00B5>mol/L", "<U+03BC>mol/L"}
           => \E j \in 1..Len(series.kept) : series.kept[j].src = i
    /\ \A j \in 1..Len(series.kept) :
         LET r == lab[series.kept[j].src]
             x == series.kept[j].v
         IN  /\ series.kept[j].u = "mg/dl"
             /\ r.u \in {"umol/L", "<U+00B5>mol/L", "<U+03BC>mol/L"}
                  => x.n * r.v.d * 884 = r.v.n * 10 * x.d
             /\ r.u = " MG/L " => x.n * r.v.d * 10 = r.v.n * x.d
             /\ r.u = "mg/dL" => x.n * r.v.d = r.v.n * x.d
             /\ (r.u \in {"umol/L", "<U+00B5>mol/L", "<U+03BC>mol/L"} /\ r.v = NumCell(884, 1))
                  => x.n = 10 * x.d
             /\ (r.u = " MG/L " /\ r.v = NumCell(100, 1)) => x.n = 10 * x.d

\* 884 with the micro sign and 100 mg/L, both 10.0 mg/dL after conversion
C16_Witness ==
  /\ Extracted /\ script = "eICU" /\ analyte = "Creatinine" /\ Len(series.kept) = 2
  /\ lab[1].u = "<U+00B5>mol/L" /\ lab[1].v = NumCell(884, 1)
  /\ lab[2].u = " MG/L " /\ lab[2].v = NumCell(100, 1)
  /\ REq(series.kept[1].v, Num(10)) /\ REq(series.kept[2].v, Num(10))
  /\ REq(series.cleaned[1].v, Num(10)) /\ ~IsNaN(series.cleaned[2].v)

\* --------------------------------- claims about the column resolvers
\* none of the candidate names is among the headers
NoneMatches ==
  \A i \in 1..Len(header) : \A j \in 1..Len(resolver.cands) :
    lower(header[i]) # resolver.cands[j]

PanelCols(sc) ==
  <<IdName(sc), "rel_hour">> \o
  [j \in 1..(2 * Len(VARS)) |->
     IF j % 2 = 1 THEN VARS[(j + 1) \div 2] ELSE ObsCol(VARS[j \div 2])]

\* analyte file f is a table without a row of a cohort entity (without any
\* row, or with an empty cohort, in particular)
NoCohortRow(f) ==
  f.exists /\ \A i \in 1..Len(f.rows) : IsNaN(RecId(f, i)) \/ RecId(f, i).n \notin Cohort

\* C18. Empty inputs: with an empty cohort, or with an analyte table that has
\* no rows or no rows of cohort entities, the run is not aborted, the analyte
\* has _obs = 0 and a null value in every row of the panel, and the panel is
\* exported with the full fixed column set.
C18_EmptyInputs ==
  /\ pc # "aborted"
  /\ Running =>
       \A k \in 1..Len(files) : NoCohortRow(files[k]) => AllMissing(panel, VARS[k])
  /\ pc = "done" =>
       /\ out.cols = PanelCols(script)
       /\ Cohort = {} => out.rows = <<>>
       /\ \A k \in 1..Len(files) : NoCohortRow(files[k]) => AllMissing(out, VARS[k])

\* a MIMIC run over a cohort of one entity and an analyte table whose only
\* record, inside the window, is of another entity
C18_Witness ==
  /\ pc = "done" /\ script = "mimic_III" /\ Cardinality(Cohort) = 1
  /\ Len(out.rows) = 356
  /\ \E k \in 1..Len(files) :
       /\ HasRecs(files[k]) /\ Len(files[k].rows) = 1
       /\ RecId(files[k], 1).n \notin Cohort /\ ~IsNaN(RecBin(files[k], 1))
       /\ VARS[k] \notin failed
       /\ AllMissing(out, VARS[k])

\* ------------------------------------- claims about the chunked filters
HeaderLines(lines) == Cardinality({i \in 1..Len(lines) : IsHdr(lines[i])})

\* rows of the whole input the tool is to keep
KeptRows(t, f) ==
  IF f.st = "file" /\ HasIdCol(t, f.s[1].hdr)
  THEN Matching(Tail(f.s), t = "part2") ELSE <<>>

\* the output of a run that wrote: one header line, first, and then the
\* kept rows of the input once each, in the input's order
WrittenOnce ==
  /\ HeaderLines(dst.s) = 1
  /\ IsHdr(dst.s[1])
  /\ Tail(dst.s) = (IF tool = "part2" THEN Projected(KeptRows(tool, src))
                    ELSE KeptRows(tool, src))

\* C19. Chunked re-run: after a second run of a chunked filter on the
\* unchanged input the output file equals the one the first run left, and
\* an output file a run wrote holds one header line and every kept row
\* once: nothing of the earlier output is appended to.
C19_ChunkedRerun ==
  /\ (pc = "done" /\ run = 2 => dst = once)
  /\ (pc = "done" /\ dst.st = "file" /\ dst # Stale => WrittenOnce)

C19_Witness ==
  /\ pc = "done" /\ run = 2
  /\ tool = "part2"
  /\ once.st = "file" /\ Len(once.s) = 3
  /\ dst = once

\* C20. process_one_file always writes the header: for every input file
\* that exists, after the call the output file exists, starts with the one
\* header line of the input, and holds nothing of its earlier content.
C20_Original ==
  tool = "process_one_file" /\ pc = "done" /\ src.st = "file" =>
    /\ dst.st = "file"
    /\ dst.s # <<>>
    /\ dst.s[1] = src.s[1]
    /\ HeaderLines(dst.s) = 1
    /\ \A i \in 1..Len(dst.s) : dst.s[i] \notin Range(Stale.s)

\* an input of a header and no data row: the earlier output is still there
C20_Witness ==
  /\ tool = "process_one_file" /\ pc = "done" /\ run = 1
  /\ src.st = "file" /\ Len(src.s) = 1
  /\ dst = Stale

\* ------------------------------------------ claims about the OR filter
\* the rows of the input whose SUBJECT_ID is a baseline subject or whose
\* HADM_ID is a baseline admission; a column the input lacks names no row
OrRowsOf(f) ==
  LET names == f.s[1].hdr
      rows == Tail(f.s)
      sub(r) == (\E i \in 1..Len(names) : upper(names[i]) = "SUBJECT_ID") /\ r.id \in WantedIds
      adm(r) == (\E i \in 1..Len(names) : upper(names[i]) = "HADM_ID") /\ r.hadm \in WantedHadms
  IN  {i \in 1..Len(rows) : sub(rows[i]) \/ adm(rows[i])}

\* row i of the output after the header is the i-th wanted row of the input
InInputOrder(f, o) ==
  LET want == OrRowsOf(f)
      rows == Tail(f.s)
      outRows == Tail(o.s)
  IN  /\ Len(outRows) = Cardinality(want)
      /\ \A i \in want :
           outRows[Cardinality({j \in want : j <= i})] = rows[i]

IntimesOf(s) ==
  {to_datetime(icu[i].t) : i \in {j \in 1..Len(icu) :
      normalize_id(icu[j].id) = s /\ ~IsNaN(to_datetime(icu[j].t))}}

Distinct(rows) == \A i, j \in 1..Len(rows) : rows[i].id = rows[j].id => i = j

\* C22. First-ICU cohort selection: first_icu_per_subject returns one row
\* per distinct (normalised) SUBJECT_ID of the ICU stays table and no other
\* row; its FIRST_ICU_INTIME is the least parseable INTIME of the subject's
\* stays, and is missing exactly when none of them parses.
C22_FirstIcu ==
  first_icu.st = "ok" =>
    /\ Distinct(first_icu.s)
    /\ {first_icu.s[i].id : i \in 1..Len(first_icu.s)}
         = {normalize_id(icu[i].id) : i \in 1..Len(icu)}
    /\ \A i \in 1..Len(first_icu.s) :
         LET r == first_icu.s[i]
             T == IntimesOf(r.id)
         IN  IF T = {} THEN IsNaN(r.t)
             ELSE r.t \in T /\ \A x \in T : RLe(r.t, x)

\* a subject whose stays come as unparseable, late, early: the early one
C22_Witness ==
  /\ first_icu.st = "ok"
  /\ icu = <<[id |-> "1", t |-> BadCell], [id |-> "1", t |-> TsCell(2)],
             [id |-> "1.0", t |-> TsCell(1)]>>
  /\ first_icu.s = <<[id |-> "1", t |-> Num(1)]>>

\* the frame of source k that dedupe_by_subject receives
Restricted(k) == InCohort(read_with_subject(sources[k]), Cohorted(first_icu.s))

\* the reduction as stated: a column is binary when it is numeric and its
\* non-null values are zeros and ones; such a column takes the maximum of
\* the subject's values, any other column the first non-null one
StatedValue(df, s) ==
  LET col == [i \in 1..Len(df) |-> df[i].v]
      g   == SelectSeq(df, LAMBDA r : r.id = s)
      gv  == [i \in 1..Len(g) |-> g[i].v]
  IN  IF is_binary_01(col, NumericCol(df)) /\ FirstNonNull(gv) # BadCell
      THEN MaxOf(gv) ELSE FirstNonNull(gv)

\* the rows of the merge: the cohort, one row each, after every step
CohortRows ==
  /\ Len(merged.rows) = Len(first_icu.s)
  /\ \A i \in 1..Len(merged.rows) : merged.rows[i].id = first_icu.s[i].id
  /\ Distinct(merged.rows)

\* every loaded source is within the cohort, one row per subject
OnePerSubject ==
  \A k \in 1..Len(deduped) :
    /\ Distinct(deduped[k])
    /\ {deduped[k][i].id : i \in 1..Len(deduped[k])}
         = {Restricted(k)[i].id : i \in 1..Len(Restricted(k))}
    /\ \A i \in 1..Len(deduped[k]) : deduped[k][i].id \in Cohorted(first_icu.s)

\* C23. Static subject-level merge: the output has one row per subject of
\* the first-ICU cohort and no other; every source is restricted to the
\* cohort and reduced to one row per SUBJECT_ID, binary 0/1 columns by max
\* and other columns by first non-null, so no merge step changes the rows.
C23_Original ==
  /\ (pc \in {"merge", "done"} => CohortRows)
  /\ OnePerSubject
  /\ \A k \in 1..Len(deduped) : \A i \in 1..Len(deduped[k]) :
       deduped[k][i].v = StatedValue(Restricted(k), deduped[k][i].id)

\* the rows of C23 without the reduction rule
C23_RowsOnly == (pc \in {"merge", "done"} => CohortRows) /\ OnePerSubject

\* a count column (0, 1 and 5 occur): subject 1 has 0 then 1 and gets 1
C23_Witness ==
  /\ pc = "done"
  /\ sources[1] = <<[id |-> "1", v |-> NumCell(0, 1)], [id |-> "1", v |-> NumCell(1, 1)],
                    [id |-> " 2", v |-> NumCell(5, 1)]>>
  /\ Cohorted(first_icu.s) = {"1", "2"}
  /\ deduped[1] = <<[id |-> "1", v |-> NumCell(1, 1)], [id |-> "2", v |-> NumCell(5, 1)]>>
  /\ FirstNonNull(<<sources[1][1].v, sources[1][2].v>>) = NumCell(0, 1)

\* --------------------------------------- claims about resolver priority
\* the candidates of the call that some header matches, by position
Matched(c, cols) ==
  {j \in 1..Len(c.cands) : \E i \in 1..Len(cols) : lower(cols[i]) = lower(c.cands[j])}

Reversed(s) == [i \in 1..Len(s) |-> s[Len(s) + 1 - i]]

\* C24. Column resolver priority: when some candidate matches a header the
\* resolver returns a header of the file (as the script holds it) whose
\* lowercased form is the lowercased form of the earliest matching
\* candidate of the list, and the same name up to case for the headers in
\* reverse order.
C24_Priority ==
  (pc = "picked" /\ Matched(resolver, header) # {}) =>
    LET m == CHOOSE j \in Matched(resolver, header) :
               \A k \in Matched(resolver, header) : j <= k
    IN  /\ picked.st = "ok"
        /\ picked.col \in (IF resolver.fn = "pick" THEN Range(Lowered(header))
                            ELSE Range(header))
        /\ lower(picked.col) = lower(resolver.cands[m])
        /\ lower(Resolved(resolver, script, Reversed(header)).col) = lower(picked.col)

\* C24 as stated. The header returned is that of the earliest matching
\* candidate and is the same header for every order of the file's headers.
C24_Original ==
  (pc = "picked" /\ Matched(resolver, header) # {}) =>
    LET m == CHOOSE j \in Matched(resolver, header) :
               \A k \in Matched(resolver, header) : j <= k
    IN  /\ picked.st = "ok"
        /\ lower(picked.col) = lower(resolver.cands[m])
        /\ Resolved(resolver, script, Reversed(header)).col = picked.col

\* the unit column: "Unit" is the seventh candidate and VALUEUOM the
\* eighth, VALUEUOM stands first in the file
C24_Witness ==
  /\ pc = "picked" /\ resolver.fn = "pick"
  /\ header = <<"VALUEUOM", "hadm_id", "Unit">>
  /\ picked.st = "ok" /\ picked.col = "unit"

\* ------------------------------------ claims about the observed flag
\* record i of analyte file f has an entity and hours in the window
\* 8 <= |h| < 720
InsideWindow(f, i) ==
  /\ HasRecs(f)
  /\ ~IsNaN(RecId(f, i)) /\ ~IsNaN(RecHrs(f, i))
  /\ RLe(Num(8), RAbs(RecHrs(f, i))) /\ RLt(RAbs(RecHrs(f, i)), Num(720))

\* the pairs (entity, assigned endpoint) of the records inside the window
SeenPairs(f) ==
  {<<RecId(f, i).n, RecBin(f, i)>> : i \in {j \in 1..Len(f.rows) : InsideWindow(f, j)}}

ObservedExactly(df) ==
  \A k \in 1..Len(files) :
    VARS[k] \notin failed =>
      LET f    == files[k]
          oc   == Col(df, ObsCol(VARS[k]))
          seen == SeenPairs(f)
      IN  /\ \A p \in 1..Len(df.rows) :
                df.rows[p][oc] = (IF <<df.rows[p][1], Num(df.rows[p][2])>> \in seen
                                  THEN One ELSE Zero)
          /\ \A i \in 1..Len(f.rows) :
                (HasRecs(f) /\ ~IsNaN(RecBin(f, i))) =>
                  RecBin(f, i).d = 1 /\ RecBin(f, i).n \in GridSet

\* C25. Exact characterisation of the observed flag: for a cohort entity e,
\* a successfully processed analyte and a grid endpoint b, the flag of the
\* panel row (e, b) is 1 exactly when the analyte's file holds a record of e
\* with 8 <= |h| < 720 whose assigned endpoint is b, and 0 otherwise; every
\* endpoint the binner assigns is one of 10, 12, ..., 720.
C25_ObservedExactly ==
  /\ Running => ObservedExactly(panel)
  /\ pc = "done" => ObservedExactly(out)

\* a record at hour 8 is seen in the bin ending at 10 and a record at hour
\* 720 of the same entity nowhere
C25_Witness ==
  /\ pc = "done"
  /\ \E k \in 1..Len(files) :
       LET f == files[k]
       IN  /\ VARS[k] \notin failed /\ Len(f.rows) = 2
           /\ RecId(f, 1) = RecId(f, 2) /\ RecId(f, 1).n \in Cohort
           /\ RecHrs(f, 1) = Num(8) /\ RecHrs(f, 2) = Num(720)
           /\ InsideWindow(f, 1) /\ ~InsideWindow(f, 2)
           /\ \E p \in RowsAt(out, RecId(f, 1).n, 10) :
                out.rows[p][Col(out, ObsCol(VARS[k]))] = One
           /\ \A p \in RowsAt(out, RecId(f, 1).n, 720) :
                out.rows[p][Col(out, ObsCol(VARS[k]))] = Zero

\* ------------------------------------- claims about null values in a bin
\* record i of f is later than every other record of its entity and bin
StrictlyLast(f, i) ==
  \A j \in 1..Len(f.rows) :
    (j # i /\ Qualifies(f, j) /\ RecId(f, j) = RecId(f, i) /\ RecBin(f, j) = RecBin(f, i))
      => RLt(RecHrs(f, j), RecHrs(f, i))

NullKept(df) ==
  \A k \in 1..Len(files) : \A i \in 1..Len(files[k].rows) :
    LET f == files[k]
    IN  (Qualifies(f, i) /\ StrictlyLast(f, i) /\ IsNaN(RecVal(f, i))) =>
          LET at == RowsAt(df, RecId(f, i).n, RecBin(f, i).n)
          IN  /\ at # {}
              /\ \A p \in at :
                   /\ IsNaN(df.rows[p][Col(df, VARS[k])])
                   /\ df.rows[p][Col(df, ObsCol(VARS[k]))] = One

\* C26. Null values take part in the last-within-bin selection: when the
\* chronologically last record of an (entity, bin) has a null or
\* unparseable value, the cell's value is null and its observed flag 1,
\* also when an earlier record of the bin has a value.
C26_NullIsLast ==
  /\ Running => NullKept(panel)
  /\ pc = "done" => NullKept(out)

\* a value at hour -12, an unparseable value at hour 11 of the same entity:
\* the cell of the bin ending at 12 is null and observed
C26_Witness ==
  /\ pc = "done"
  /\ \E k \in 1..Len(files) : \E i, j \in 1..Len(files[k].rows) :
       LET f == files[k]
       IN  /\ Qualifies(f, i) /\ Qualifies(f, j) /\ RecId(f, i) = RecId(f, j)
           /\ RecHrs(f, i) = Num(-12) /\ ~IsNaN(RecVal(f, i))
           /\ RecHrs(f, j) = Num(11) /\ IsNaN(RecVal(f, j))
           /\ \E p \in RowsAt(out, RecId(f, i).n, 12) :
                /\ IsNaN(out.rows[p][Col(out, VARS[k])])
                /\ out.rows[p][Col(out, ObsCol(VARS[k]))] = One

\* ------------------------------------ claims about the order of records
\* analyte file f with its rows in the opposite order
Flipped(f) == [f EXCEPT !.rows = Reversed(f.rows)]

\* what the merge loop gets from analyte k's file f
AggOf(k, f) == Try(script, VARS[k], _bin_one_variable(script, VARS[k], f, ids, t0_map))

\* the rows of res that the left merge on (id, rel_hour) brings into the
\* panel: those of the cohort
CellsOf(res) == {r \in Range(res.agg.rows) : r[1] \in Cohort}

\* the same cells from f and from f in the opposite order
SameCells(k, f) ==
  /\ AggOf(k, f).st = AggOf(k, Flipped(f)).st
  /\ CellsOf(AggOf(k, f)) = CellsOf(AggOf(k, Flipped(f)))

\* C27 as stated. The cells of an analyte do not depend on the order of the
\* records in its file, ties on the hour included.
C27_Original ==
  Running => \A k \in 1..Len(files) : SameCells(k, files[k])

\* two records of one entity and one bin with the same hours and different
\* values
Tied(f) ==
  \E i, j \in 1..Len(f.rows) :
    /\ i # j /\ Qualifies(f, i) /\ Qualifies(f, j)
    /\ RecId(f, i) = RecId(f, j) /\ RecBin(f, i) = RecBin(f, j)
    /\ REq(RecHrs(f, i), RecHrs(f, j))
    /\ RecVal(f, i) # RecVal(f, j)

\* C27. Row-order independence up to ties: the cells of an analyte do not
\* depend on the order of the records in its file unless two records of one
\* entity and bin have the same resolved hours and different values; among
\* the records of an (entity, bin) with the largest hours the one that
\* stands last in the file gives the cell its value.
C27_UpToTies ==
  Running =>
    \A k \in 1..Len(files) :
      LET f == files[k]
      IN  /\ ~Tied(f) => SameCells(k, f)
          /\ \A i \in 1..Len(f.rows) :
               Qualifies(f, i) =>
                 LET same == {j \in 1..Len(f.rows) :
                                /\ Qualifies(f, j)
                                /\ RecId(f, j) = RecId(f, i)
                                /\ RecBin(f, j) = RecBin(f, i)}
                     top  == {j \in same : \A j2 \in same : RLe(RecHrs(f, j2), RecHrs(f, j))}
                     last == CHOOSE j \in top : \A j2 \in top : j2 <= j
                 IN  \A p \in RowsAt(panel, RecId(f, i).n, RecBin(f, i).n) :
                       panel.rows[p][Col(panel, VARS[k])] = RecVal(f, last)

\* values 7 and 9 of one entity at hour 11: the cell holds 9, and 7 for the
\* file in the opposite order
C27_Witness ==
  /\ pc = "done"
  /\ \E k \in 1..Len(files) :
       LET f == files[k]
       IN  /\ Len(f.rows) = 2 /\ Qualifies(f, 1) /\ Qualifies(f, 2)
           /\ RecId(f, 1) = RecId(f, 2)
           /\ RecHrs(f, 1) = Num(11) /\ RecHrs(f, 2) = Num(11)
           /\ RecVal(f, 1) = Num(7) /\ RecVal(f, 2) = Num(9)
           /\ \E p \in RowsAt(out, RecId(f, 1).n, 12) : out.rows[p][Col(out, VARS[k])] = Num(9)
           /\ \E r \in CellsOf(AggOf(k, Flipped(f))) : r[3] = Num(7)

\* ----------------------------------------- claims about the merge loop
\* the columns of analyte k in df follow from the cohort and from the file
\* of analyte k: the cell of a pair (entity, endpoint) that the file gives a
\* row holds that row, every other cell is null with flag 0
OwnColumns(df, k) ==
  LET cells == CellsOf(AggOf(k, files[k]))
      keys  == {<<r[1], r[2]>> : r \in cells}
      vc    == Col(df, VARS[k])
      oc    == Col(df, ObsCol(VARS[k]))
  IN  \A p \in 1..Len(df.rows) :
        LET r == df.rows[p]
        IN  IF <<r[1], r[2]>> \in keys
            THEN <<r[1], r[2], r[vc], r[oc]>> \in cells
            ELSE IsNaN(r[vc]) /\ r[oc] = Zero

\* one pass of the loop appends two columns and keeps what the panel held
KeepsColumns ==
  pc = "loop" =>
    /\ Len(panel'.cols) = Len(panel.cols) + 2
    /\ SubSeq(panel'.cols, 1, Len(panel.cols)) = panel.cols
    /\ [p \in 1..Len(panel'.rows) |-> SubSeq(panel'.rows[p], 1, Len(panel.cols))]
         = panel.rows

\* C28. Analyte independence in the merge loop: merging analyte k onto the
\* panel leaves the id, endpoint, value and obs columns written before
\* unchanged, and the value and obs columns of an analyte, in the panel and
\* in the exported file, follow from the cohort and from that analyte's own
\* file alone, whatever the files of the other analytes hold and whether they
\* failed.
C28_Independent ==
  /\ [](Running => \A k \in 1..Len(files) : OwnColumns(panel, k))
  /\ [](pc = "done" => \A k \in 1..Len(files) : OwnColumns(out, k))
  /\ [][KeepsColumns]_vars

\* two analytes with records and a failed analyte between them: both keep
\* their cells
C28_Witness ==
  /\ pc = "done"
  /\ \E k1, k2, k3 \in 1..Len(files) :
       /\ k1 < k2 /\ k2 < k3
       /\ VARS[k2] \in failed /\ VARS[k1] \notin failed /\ VARS[k3] \notin failed
       /\ Len(files[k1].rows) = 1 /\ Len(files[k3].rows) = 1
       /\ Qualifies(files[k1], 1) /\ Qualifies(files[k3], 1)
       /\ RecId(files[k1], 1) # RecId(files[k3], 1)
       /\ \E p \in RowsAt(out, RecId(files[k1], 1).n, 12) :
            /\ out.rows[p][Col(out, VARS[k1])] = Num(7)
            /\ IsNaN(out.rows[p][Col(out, VARS[k2])])
            /\ IsNaN(out.rows[p][Col(out, VARS[k3])])
            /\ out.rows[p][Col(out, ObsCol(VARS[k3]))] = Zero
       /\ \E p \in RowsAt(out, RecId(files[k3], 1).n, 12) :
            /\ out.rows[p][Col(out, VARS[k3])] = Num(7)
            /\ IsNaN(out.rows[p][Col(out, VARS[k1])])

\* ------------------------------------ claims about the scale of the hours
\* the time column under study as numbers, null where a cell does not parse
SinNum == [i \in 1..Len(sin) |-> to_numeric(sin[i])]

\* every record of s is the record of SinNum divided by q
ScaledBy(s, q) ==
  /\ Len(s) = Len(SinNum)
  /\ \A i \in 1..Len(s) :
       IF IsNaN(SinNum[i]) THEN IsNaN(s[i])
       ELSE ~IsNaN(s[i]) /\ REq(s[i], RDivInt(SinNum[i], q))

\* the order of the records by time is the same before and after
SameOrder(s) ==
  \A i, j \in 1..Len(s) :
    (~IsNaN(SinNum[i]) /\ ~IsNaN(SinNum[j])) =>
      (RLt(SinNum[i], SinNum[j]) <=> RLt(s[i], s[j]))

\* C29. Uniform time scaling: the hours that the resolver returns for a time
\* column are the numbers of the column either all divided by 60 or all
\* unchanged, they are divided exactly when the column is an offset column
\* whose median exceeds 500 in magnitude, and the order of the records by time
\* is the order of the numbers of the column.
C29_UniformScale ==
  (pc = "resolved" /\ sout.st = "ok") =>
    /\ ScaledBy(sout.s, 1) \/ ScaledBy(sout.s, MIN_PER_H)
    /\ (OffsetLike(script, lower(tname)) /\ RLt(Num(MED_MINUTES), RAbs(nanmedian(NonNull(SinNum)))))
          => ScaledBy(sout.s, MIN_PER_H)
    /\ ~(OffsetLike(script, lower(tname)) /\ RLt(Num(MED_MINUTES), RAbs(nanmedian(NonNull(SinNum)))))
          => ScaledBy(sout.s, 1)
    /\ SameOrder(sout.s)

\* hours 10, 501 and 1010 in an offset column: the median 501 makes minutes of
\* all three, the 10 included
C29_Witness ==
  /\ pc = "resolved" /\ tname = "labresultoffset"
  /\ sin = <<NumCell(10, 1), NumCell(501, 1), NumCell(1010, 1)>>
  /\ sout.st = "ok"
  /\ sout.s = <<Rat(10, 60), Rat(501, 60), Rat(1010, 60)>>
  /\ ScaledBy(sout.s, MIN_PER_H) /\ ~ScaledBy(sout.s, 1)

====
